---- MODULE Spec2Model ----
(***************************************************************************)
(* Model of the superagents ID allocator (scripts/sa_id.py) and of the     *)
(* registry bootstrap of scripts/sa_init.py.                               *)
(*                                                                         *)
(* Independent OS processes share a small file system: the registry file   *)
(* registry.json, its temporary sibling registry.json.tmp, the lock file   *)
(* registry.json.lock and the artifact tree that scan_max_ids walks.       *)
(* Every action below is one step of one process: a system call on the     *)
(* shared files together with the local computation that surrounds it.     *)
(***************************************************************************)
EXTENDS Integers, Sequences, FiniteSets, TLC

(***************************************************************************)
(* Bounds of the model.                                                    *)
(***************************************************************************)
\* number of processes; each one is one invocation of a tool
NumProcs == 2
\* largest value of a clock reading: a timestamp of utc_now_iso, or the time
\* a process has waited for the lock, in poll intervals of 0.1 s
MaxTime == 1
\* last_id of the version-1 registry a run can start from
MaxInitId == 9

Procs == 1..NumProcs

(***************************************************************************)
(* Program constants.                                                      *)
(***************************************************************************)
KIND_CHOICES == {"chg", "spec"}

KIND_PREFIX == [chg |-> <<"C", "H", "G">>, spec |-> <<"S", "P", "E", "C">>]

\* the pad width sa_new / sa_new_spec pass and the CLI default
DefaultPad == 6

(***************************************************************************)
(* Inputs.  An argument of a call is drawn at the step that first reads    *)
(* it; arguments do not depend on the state, so the behaviours are those   *)
(* of drawing all of them when the call starts.                            *)
(***************************************************************************)
\* a kind outside KIND_CHOICES that a caller of allocate_next_id may pass
BadKind == "bogus"

\* timeout_sec, in poll intervals
Timeouts == {0, 1}

\* the pad a caller passes: the default for chg, a width of 1 for spec
CallerPad == [chg |-> DefaultPad, spec |-> 1]

\* the pads a caller of allocate_next_id or of the command line may pass
Pads == {0, 1, DefaultPad}

\* the arguments of a call before any is drawn
NoArgs == [kind |-> "chg", pad |-> DefaultPad, timeout |-> 0,
           dry_run |-> FALSE, scan |-> FALSE]

(***************************************************************************)
(* Python helpers.                                                         *)
(***************************************************************************)
Max(a, b) == IF a >= b THEN a ELSE b

RECURSIVE SetMax(_)
SetMax(S) == IF S = {} THEN 0
             ELSE LET x == CHOOSE y \in S : TRUE IN Max(x, SetMax(S \ {x}))

DigitChar(d) ==
    CASE d = 0 -> "0" [] d = 1 -> "1" [] d = 2 -> "2" [] d = 3 -> "3"
      [] d = 4 -> "4" [] d = 5 -> "5" [] d = 6 -> "6" [] d = 7 -> "7"
      [] d = 8 -> "8" [] d = 9 -> "9"

\* str(n) for an int: its decimal digits, most significant first
RECURSIVE str(_)
str(n) == IF n < 0 THEN <<"-">> \o str(-n)
          ELSE IF n < 10 THEN <<DigitChar(n)>>
          ELSE str(n \div 10) \o <<DigitChar(n % 10)>>

RECURSIVE Zeros(_)
Zeros(n) == IF n <= 0 THEN <<>> ELSE <<"0">> \o Zeros(n - 1)

\* a padding that cuts a longer string down to the width
zfill_truncates(s, width) ==
    IF Len(s) > width /\ width > 0 THEN SubSeq(s, Len(s) - width + 1, Len(s))
    ELSE Zeros(width - Len(s)) \o s

\* str.zfill(width): pad on the left with zeros, after a sign, never truncate
zfill(s, width) ==
    IF Len(s) >= width THEN s
    ELSE IF Len(s) > 0 /\ s[1] \in {"+", "-"}
         THEN <<s[1]>> \o Zeros(width - Len(s)) \o Tail(s)
         ELSE Zeros(width - Len(s)) \o s

(***************************************************************************)
(* JSON values and registry documents.                                     *)
(***************************************************************************)
JInt(n) == [tag |-> "int", val |-> n]
\* a string that int() rejects
JStr == [tag |-> "str", val |-> 0]
\* the key is not in the object
JMissing == [tag |-> "missing", val |-> 0]

MkDoc(sv, last, ctr, upd) ==
    [schema_version |-> sv, last_id |-> last, counters |-> ctr, updated_at |-> upd]

NoCounters == [chg |-> JMissing, spec |-> JMissing]

NullDoc == MkDoc(JMissing, JMissing, NoCounters, JMissing)

\* {"schema_version": 1, "last_id": L}
DocV1(L) == MkDoc(JInt(1), JInt(L), NoCounters, JMissing)

\* {"schema_version": 2, "counters": {"chg": c, "spec": s}, "updated_at": t}
DocV2(c, s, t) == MkDoc(JInt(2), JMissing, [chg |-> JInt(c), spec |-> JInt(s)], JInt(t))

\* a version-2 document whose counters.chg is a non-numeric string
DocBadCounter(s, t) == MkDoc(JInt(2), JMissing, [chg |-> JStr, spec |-> JInt(s)], JInt(t))

(***************************************************************************)
(* Files.  A path is absent, or names a file that is empty, holds one      *)
(* complete serialized document, or holds bytes that are no document       *)
(* (a truncated or overlaid serialization).                                *)
(***************************************************************************)
Absent == [kind |-> "absent", doc |-> NullDoc]
Empty == [kind |-> "empty", doc |-> NullDoc]
Garbled == [kind |-> "garbled", doc |-> NullDoc]
Full(d) == [kind |-> "doc", doc |-> d]

\* number of characters json.dump emits for one member of an object
MemberLen(v) == IF v.tag = "missing" THEN 0
                ELSE IF v.tag = "int" THEN 1 + Len(str(v.val))
                ELSE 2

\* a key of counters that is no kind of KIND_CHOICES
OtherKey == "run"

\* length of the serialization of a document, up to a constant
SerialLen(d) ==
    MemberLen(d.schema_version) + MemberLen(d.last_id) + MemberLen(d.updated_at)
      + MemberLen(d.counters.chg) + MemberLen(d.counters.spec)
      + (IF OtherKey \in DOMAIN d.counters THEN MemberLen(d.counters[OtherKey]) ELSE 0)

\* the content of a file after one write() of the serialization of d at
\* offset 0: bytes of the old content beyond the new ones stay in place
WriteAt0(old, d) ==
    IF old.kind = "doc" /\ SerialLen(old.doc) > SerialLen(d) THEN Garbled
    ELSE IF old.kind = "garbled" THEN Garbled
    ELSE Full(d)

(***************************************************************************)
(* RegistryStore: read_registry.                                           *)
(***************************************************************************)
\* int(v): ok is FALSE when Python raises TypeError / ValueError
int_of(v) == IF v.tag = "int" THEN [ok |-> TRUE, val |-> v.val]
             ELSE [ok |-> FALSE, val |-> 0]

\* dict.get(key, default)
get(v, default) == IF v.tag = "missing" THEN default ELSE v

\* Python truthiness of a JSON value
truthy(v) == IF v.tag = "int" THEN v.val # 0 ELSE v.tag # "missing"

RegNone == [status |-> "none", doc |-> NullDoc]
RegError == [status |-> "error", doc |-> NullDoc]
RegOk(d) == [status |-> "ok", doc |-> d]

\* a normalisation that drops a value int() rejects instead of raising
normalize_counters_lenient(c) ==
    [ok |-> TRUE,
     counters |-> [chg |-> IF int_of(c.chg).ok THEN JInt(int_of(c.chg).val) ELSE JMissing,
                   spec |-> IF int_of(c.spec).ok THEN JInt(int_of(c.spec).val) ELSE JMissing]]

\* counters of a version>=2 document after normalisation: every present
\* value goes through int(), under whatever key it is
normalize_counters(c) ==
    IF \E k \in DOMAIN c : c[k].tag # "missing" /\ ~int_of(c[k]).ok
    THEN [ok |-> FALSE, counters |-> NoCounters]
    ELSE [ok |-> TRUE,
          counters |-> [k \in DOMAIN c |->
                           IF c[k].tag = "missing" THEN JMissing
                           ELSE JInt(int_of(c[k]).val)]]

\* read_registry(path): "none" when the path does not exist, "error" when a
\* ValueError is raised (json.JSONDecodeError is one), else the normalised dict
read_registry(f) ==
    IF f.kind = "absent" THEN RegNone
    ELSE IF f.kind # "doc" THEN RegError
    ELSE LET data == f.doc
             raw == get(data.schema_version, JInt(1))
             sv == int_of(IF truthy(raw) THEN raw ELSE JInt(1))
         IN  IF ~sv.ok THEN RegError
             ELSE IF sv.val = 1 THEN
                 IF data.last_id.tag = "missing" THEN RegError
                 ELSE IF ~int_of(data.last_id).ok THEN RegError
                 ELSE RegOk([data EXCEPT !.schema_version = JInt(1),
                                         !.last_id = JInt(int_of(data.last_id).val)])
             ELSE IF sv.val >= 2 THEN
                 LET n == normalize_counters(data.counters)
                 IN  IF ~n.ok THEN RegError
                     ELSE RegOk([data EXCEPT !.schema_version = JInt(sv.val),
                                             !.counters = n.counters])
             ELSE RegError

(***************************************************************************)
(* Scanner: scan_max_ids over the artifact tree under one directory.  The  *)
(* tree is the set of numeric prefixes of the task directories and the set *)
(* of numeric suffixes of the SPEC ids declared by spec documents.         *)
(***************************************************************************)
scan_max_ids(t) == [chg |-> SetMax(t.chg), spec |-> SetMax(t.spec)]

\* line 147: allocate_next_id scans the parent directory of the registry
\* path, which for superagents/.sa/registry.json is superagents/.sa
alloc_scan_dir(trees) == trees.regdir

\* sa_init line 54: ensure_registry scans superagents_dir
init_scan_dir(trees) == trees.sa

NoScan == [chg |-> 0, spec |-> 0]

(***************************************************************************)
(* Allocator: the body of allocate_next_id between read and persist.       *)
(***************************************************************************)
\* lines 151-169: the registry the allocation works on, from the loaded
\* registry (status "none" or "ok"), the scan result and the clock
\* the version-1 migration seeding chg from the scan alone
reconcile_v1_drops_last_id(data, scanned, t) ==
    MkDoc(JInt(2), JMissing,
          [chg |-> JInt(scanned.chg), spec |-> JInt(scanned.spec)], JInt(t))

\* the version-1 migration seeding both counters from last_id
reconcile_v1_seeds_spec(data, scanned, t) ==
    MkDoc(JInt(2), JMissing,
          [chg |-> JInt(Max(scanned.chg, get(data.last_id, JInt(0)).val)),
           spec |-> JInt(Max(scanned.spec, get(data.last_id, JInt(0)).val))],
          JInt(t))

\* the version-1 branch, lines 157-163
reconcile_v1(data, scanned, t) ==
    MkDoc(JInt(2), JMissing,
          [chg |-> JInt(Max(scanned.chg, get(data.last_id, JInt(0)).val)),
           spec |-> JInt(scanned.spec)],
          JInt(t))

\* the version>=2 branch taking the scanned value only when the scan found
\* an artifact, the stored counter as it is otherwise
reconcile_v2_no_floor(data, scanned) ==
    [data EXCEPT !.counters =
        [chg |-> JInt(IF scanned.chg = 0 THEN get(data.counters.chg, JInt(0)).val
                      ELSE Max(get(data.counters.chg, JInt(0)).val, scanned.chg)),
         spec |-> JInt(IF scanned.spec = 0 THEN get(data.counters.spec, JInt(0)).val
                       ELSE Max(get(data.counters.spec, JInt(0)).val, scanned.spec))]]

\* the version>=2 branch reconciling the chg counter alone
reconcile_v2_chg_only(data, scanned) ==
    [data EXCEPT !.counters =
        [chg |-> JInt(Max(get(data.counters.chg, JInt(0)).val, scanned.chg)),
         spec |-> JInt(get(data.counters.spec, JInt(0)).val)]]

\* the version>=2 branch building a new registry as the version-1 branch
\* does: schema_version 2 and the counters of the two kinds
reconcile_v2_rebuilds(data, scanned) ==
    MkDoc(JInt(2), JMissing,
          [chg |-> JInt(Max(get(data.counters.chg, JInt(0)).val, scanned.chg)),
           spec |-> JInt(Max(get(data.counters.spec, JInt(0)).val, scanned.spec))],
          data.updated_at)

\* the version>=2 branch, lines 164-169: the registry read is kept, the
\* counters of the two kinds are set in a copy of its counters
reconcile_v2(data, scanned) ==
    [data EXCEPT !.counters =
        [data.counters EXCEPT
            !.chg = JInt(Max(get(data.counters.chg, JInt(0)).val, scanned.chg)),
            !.spec = JInt(Max(get(data.counters.spec, JInt(0)).val, scanned.spec))]]

reconcile(loaded, scanned, t) ==
    IF loaded.status = "none"
    THEN MkDoc(JInt(2), JMissing,
               [chg |-> JInt(scanned.chg), spec |-> JInt(scanned.spec)], JInt(t))
    ELSE IF get(loaded.doc.schema_version, JInt(1)).val = 1
    THEN reconcile_v1(loaded.doc, scanned, t)
    ELSE reconcile_v2(loaded.doc, scanned)

\* lines 171-175 and 182-189: the allocation computed from the reconciled registry
allocation(registry, kind, pad) ==
    LET current == get(registry.counters[kind], JInt(0)).val
        next_id == current + 1
        padded_id == zfill(str(next_id), pad)
    IN  [id |-> next_id, padded_id |-> padded_id,
         stable_id |-> KIND_PREFIX[kind] \o <<"-">> \o padded_id,
         current |-> current]

NoAllocation == [id |-> 0, padded_id |-> <<>>, stable_id |-> <<>>, current |-> 0]

\* lines 178-179 without the assignment counters[kind] = next_id
bump_keeps_counter(registry, kind, next_id, t) ==
    [registry EXCEPT !.updated_at = JInt(t)]

\* lines 178-179: the registry that is persisted
bump(registry, kind, next_id, t) ==
    [registry EXCEPT !.counters[kind] = JInt(next_id), !.updated_at = JInt(t)]

\* sa_init.ensure_registry lines 54-59: the registry it writes
init_registry(scanned, t) == DocV2(scanned.chg, scanned.spec, t)

(***************************************************************************)
(* State.                                                                  *)
(***************************************************************************)
VARIABLES
    now,        \* the latest clock value read (time.time() in poll intervals,
                \* utc_now_iso())
    metaDir,    \* the directory of the registry (superagents/.sa) exists
    lockFile,   \* registry.json.lock exists
    regFile,    \* the file named registry.json
    tmpFile,    \* the file named registry.json.tmp
    tree,       \* the artifact trees: sa under superagents/, regdir under the
                \* directory that holds the registry
    regInit,    \* the registry file the run started from (history)
    pc,         \* where each process is
    tool,       \* the tool each process runs: "alloc", "init", "new" or "none"
    args,       \* the arguments of the running call
    loc,        \* the local variables of the running call
    fdt,        \* the file the open descriptor of a writer refers to
    log         \* the calls that have returned, in order of return

vars == <<now, metaDir, lockFile, regFile, tmpFile, tree, regInit, pc, tool, args, loc,
          fdt, log>>

InitLoc ==
    [polls |-> 0, handle |-> FALSE, acquired |-> FALSE, releases |-> 0,
     wrote |-> FALSE,
     loaded |-> RegNone, registry |-> NullDoc, alloc |-> NoAllocation, exc |-> ""]

NoArtifacts == [chg |-> {}, spec |-> {}]

SomeArtifacts == [chg |-> {1, 2}, spec |-> {1}]

\* the default layout: artifacts under superagents/, the registry in
\* superagents/.sa/, which holds no artifacts
DefaultTree == [sa |-> SomeArtifacts, regdir |-> NoArtifacts]

\* registry_relpath directly under the directory of the artifacts
FlatTree == [sa |-> SomeArtifacts, regdir |-> SomeArtifacts]

\* the projects a run can start from
InitProjects ==
    {[reg |-> Absent, tree |-> DefaultTree],
     [reg |-> Absent, tree |-> FlatTree],
     [reg |-> Full(DocV1(MaxInitId)), tree |-> FlatTree],
     [reg |-> Full(DocBadCounter(0, 0)), tree |-> DefaultTree]}

Init ==
    /\ now = 0
    /\ \E project \in InitProjects : regFile = project.reg /\ tree = project.tree
    /\ regInit = regFile
    /\ metaDir = (regFile # Absent)
    /\ lockFile = FALSE
    /\ tmpFile = Absent
    /\ pc = [p \in Procs |-> "idle"]
    /\ tool = [p \in Procs |-> "none"]
    /\ args = [p \in Procs |-> NoArgs]
    /\ loc = [p \in Procs |-> InitLoc]
    /\ fdt = [p \in Procs |-> "none"]
    /\ log = <<>>

(***************************************************************************)
(* The record of a call that returned.                                     *)
(***************************************************************************)
Outcome(p) == IF loc[p].exc = "" THEN "ok" ELSE loc[p].exc

Entry(p, outcome) ==
    [tool |-> tool[p], kind |-> args[p].kind, pad |-> args[p].pad,
     dry_run |-> args[p].dry_run, scan |-> args[p].scan,
     outcome |-> outcome,
     alloc |-> IF outcome = "ok" THEN loc[p].alloc ELSE NoAllocation,
     acquired |-> loc[p].acquired, releases |-> loc[p].releases,
     wrote |-> loc[p].wrote]

\* sa_new and sa_new_spec go on with the allocation they received
\* (sa_new.py lines 78-105, sa_new_spec.py lines 56-89)
GoesOn(p, entry) == tool[p] \in {"new", "new_spec"} /\ entry.outcome = "ok"

\* where the tool goes on: sa_new makes its directories, sa_new_spec
\* looks for spec.md
GoesOnPc(p) == IF tool[p] = "new" THEN "mkdir" ELSE "spec_md"

\* the call ends: the caller receives the outcome, and the process ends
\* unless it is sa_new or sa_new_spec holding an allocation; sa_new_spec
\* still has its --dry-run
Return(p, entry) ==
    /\ log' = Append(log, entry)
    /\ pc' = [pc EXCEPT ![p] = IF GoesOn(p, entry) THEN GoesOnPc(p) ELSE "done"]
    /\ tool' = [tool EXCEPT ![p] = IF GoesOn(p, entry) THEN tool[p] ELSE "none"]
    /\ args' = [args EXCEPT ![p] = IF GoesOn(p, entry) /\ tool[p] = "new_spec"
                                   THEN [NoArgs EXCEPT !.dry_run = entry.dry_run]
                                   ELSE NoArgs]
    /\ loc' = [loc EXCEPT ![p] = IF GoesOn(p, entry)
                                 THEN [InitLoc EXCEPT !.alloc = entry.alloc]
                                 ELSE InitLoc]

\* processes are interchangeable: they start in the order of their numbers
MayStart(p) == \A q \in Procs : q < p => pc[q] # "idle"

\* where write_json_atomic returns or raises to
ExitPc(p) == IF tool[p] = "init" THEN "init_exit" ELSE "release"

(***************************************************************************)
(* Time.  now is the latest value utc_now_iso returned; a later call       *)
(* returns that value or a later one.  A process waiting for the lock has  *)
(* slept polls intervals since it read start, so time.time() - start is    *)
(* polls or more.                                                          *)
(***************************************************************************)
ClockValues == now..MaxTime

Elapsed(p) == loc[p].polls..MaxTime

\* timeout_sec is first read when an attempt fails (line 76), and is the
\* same at every later attempt of the call
TimeoutArg(p) == IF loc[p].polls = 0 THEN Timeouts ELSE {args[p].timeout}

(***************************************************************************)
(* allocate_next_id.                                                       *)
(***************************************************************************)
\* a caller enters allocate_next_id; acquire_lock creates the directory
\* (line 69) and reads the start time (line 70)
allocate_next_id(p) ==
    /\ pc[p] = "idle"
    /\ MayStart(p)
    /\ tool' = [tool EXCEPT ![p] = "alloc"]
    /\ metaDir' = TRUE
    /\ pc' = [pc EXCEPT ![p] = "acquire"]
    /\ UNCHANGED <<now, lockFile, regFile, tmpFile, tree, regInit, args, loc, fdt, log>>

\* acquire_lock with the O_EXCL flag forgotten: os.open succeeds whether or
\* not the lock file exists
acquire_lock_nonexclusive(p) ==
    /\ pc[p] = "acquire"
    /\ lockFile' = TRUE
    /\ loc' = [loc EXCEPT ![p].handle = TRUE, ![p].acquired = TRUE]
    /\ pc' = [pc EXCEPT ![p] = "locked"]
    /\ UNCHANGED <<now, metaDir, regFile, tmpFile, tree, regInit, tool, args, fdt, log>>

\* an acquire_lock that takes over a lock file no running process holds
acquire_lock_reclaims(p) ==
    /\ pc[p] = "acquire"
    /\ ~lockFile \/ \A q \in Procs : ~loc[q].handle
    /\ lockFile' = TRUE
    /\ loc' = [loc EXCEPT ![p].handle = TRUE, ![p].acquired = TRUE]
    /\ pc' = [pc EXCEPT ![p] = "locked"]
    /\ UNCHANGED <<now, metaDir, regFile, tmpFile, tree, regInit, tool, args, fdt, log>>

\* os.open(O_CREAT | O_EXCL) succeeds: the lock file did not exist
acquire_lock(p) ==
    /\ pc[p] = "acquire"
    /\ ~lockFile
    /\ lockFile' = TRUE
    /\ loc' = [loc EXCEPT ![p].handle = TRUE, ![p].acquired = TRUE]
    /\ pc' = [pc EXCEPT ![p] = "locked"]
    /\ UNCHANGED <<now, metaDir, regFile, tmpFile, tree, regInit, tool, args, fdt, log>>

\* acquire_lock that sleeps and retries without comparing the elapsed time
\* with the timeout
acquire_lock_sleep_ignores_timeout(p, timeout, elapsed) ==
    /\ pc[p] = "acquire"
    /\ lockFile
    /\ args' = [args EXCEPT ![p].timeout = timeout]
    /\ loc' = [loc EXCEPT ![p].polls = loc[p].polls + 1]
    /\ UNCHANGED <<now, metaDir, lockFile, regFile, tmpFile, tree, regInit, pc, tool,
                   fdt, log>>

\* FileExistsError before the timeout has elapsed: sleep one interval
acquire_lock_sleep(p, timeout, elapsed) ==
    /\ pc[p] = "acquire"
    /\ lockFile
    /\ elapsed < timeout
    /\ args' = [args EXCEPT ![p].timeout = timeout]
    /\ loc' = [loc EXCEPT ![p].polls = loc[p].polls + 1]
    /\ UNCHANGED <<now, metaDir, lockFile, regFile, tmpFile, tree, regInit, pc, tool,
                   fdt, log>>

\* acquire_lock that gives up waiting and returns without the lock file,
\* instead of raising TimeoutError
acquire_lock_timeout_proceeds(p, timeout, elapsed) ==
    /\ pc[p] = "acquire"
    /\ lockFile
    /\ elapsed >= timeout
    /\ pc' = [pc EXCEPT ![p] = "locked"]
    /\ UNCHANGED <<now, metaDir, lockFile, regFile, tmpFile, tree, regInit, tool,
                   args, loc, fdt, log>>

\* acquire_lock that raises TimeoutError at the first failed attempt,
\* without comparing the elapsed time with the timeout
acquire_lock_timeout_early(p, timeout, elapsed) ==
    /\ pc[p] = "acquire"
    /\ lockFile
    /\ Return(p, Entry(p, "LockTimeout"))
    /\ UNCHANGED <<now, metaDir, lockFile, regFile, tmpFile, tree, regInit, fdt>>

\* acquire_lock that removes the lock file it has waited for when it gives up
acquire_lock_timeout_unlinks(p, timeout, elapsed) ==
    /\ pc[p] = "acquire"
    /\ lockFile
    /\ elapsed >= timeout
    /\ lockFile' = FALSE
    /\ Return(p, Entry(p, "LockTimeout"))
    /\ UNCHANGED <<now, metaDir, regFile, tmpFile, tree, regInit, fdt>>

\* FileExistsError with the timeout elapsed: TimeoutError leaves
\* allocate_next_id from outside its try block
acquire_lock_timeout(p, timeout, elapsed) ==
    /\ pc[p] = "acquire"
    /\ lockFile
    /\ elapsed >= timeout
    /\ Return(p, Entry(p, "LockTimeout"))
    /\ UNCHANGED <<now, metaDir, lockFile, regFile, tmpFile, tree, regInit, fdt>>

\* line 142: the kind is checked inside the guarded section
check_kind_fail(p) ==
    /\ pc[p] = "locked"
    /\ args' = [args EXCEPT ![p].kind = BadKind]
    /\ loc' = [loc EXCEPT ![p].exc = "InvalidKind"]
    /\ pc' = [pc EXCEPT ![p] = "release"]
    /\ UNCHANGED <<now, metaDir, lockFile, regFile, tmpFile, tree, regInit, tool,
                   fdt, log>>

\* lines 142-146: the kind is valid, read_registry returns None or the
\* normalised registry
load(p, kind, pad) ==
    /\ pc[p] = "locked"
    /\ read_registry(regFile).status # "error"
    /\ args' = [args EXCEPT ![p].kind = kind, ![p].pad = pad]
    /\ loc' = [loc EXCEPT ![p].loaded = read_registry(regFile)]
    /\ pc' = [pc EXCEPT ![p] = "reconcile"]
    /\ UNCHANGED <<now, metaDir, lockFile, regFile, tmpFile, tree, regInit, tool,
                   fdt, log>>

\* read_registry called outside the try block: its ValueError reaches the
\* caller without release_lock
load_corrupt_no_release(p, kind) ==
    /\ pc[p] = "locked"
    /\ read_registry(regFile).status = "error"
    /\ Return(p, [Entry(p, "RegistryCorrupt") EXCEPT !.kind = kind])
    /\ UNCHANGED <<now, metaDir, lockFile, regFile, tmpFile, tree, regInit, fdt>>

\* lines 142-146: the kind is valid, read_registry raises ValueError
load_corrupt(p, kind) ==
    /\ pc[p] = "locked"
    /\ read_registry(regFile).status = "error"
    /\ args' = [args EXCEPT ![p].kind = kind, ![p].pad = CallerPad[kind]]
    /\ loc' = [loc EXCEPT ![p].exc = "RegistryCorrupt"]
    /\ pc' = [pc EXCEPT ![p] = "release"]
    /\ UNCHANGED <<now, metaDir, lockFile, regFile, tmpFile, tree, regInit, tool,
                   fdt, log>>

\* lines 177-180 without the dry_run test
after_allocation_ignores_dry_run(registry, kind, dry_run, alloc, t) ==
    [pc |-> "open_tmp", registry |-> bump(registry, kind, alloc.id, t)]

\* the next pc and the registry in memory after lines 171-179
after_allocation(registry, kind, dry_run, alloc, t) ==
    IF dry_run
    THEN [pc |-> "release", registry |-> registry]
    ELSE [pc |-> "open_tmp", registry |-> bump(registry, kind, alloc.id, t)]

\* a dry run that skips the scan
reconcile_allocate_dry_skips_scan(p, dry_run, scan, t) ==
    /\ pc[p] = "reconcile"
    /\ LET scanned == IF scan /\ ~dry_run
                      THEN scan_max_ids(alloc_scan_dir(tree)) ELSE NoScan
           registry == reconcile(loc[p].loaded, scanned, t)
           alloc == allocation(registry, args[p].kind, args[p].pad)
           next == after_allocation(registry, args[p].kind, dry_run, alloc, t)
       IN  /\ loc' = [loc EXCEPT ![p].registry = next.registry, ![p].alloc = alloc]
           /\ pc' = [pc EXCEPT ![p] = next.pc]
    /\ args' = [args EXCEPT ![p].dry_run = dry_run, ![p].scan = scan]
    /\ now' = t
    /\ UNCHANGED <<metaDir, lockFile, regFile, tmpFile, tree, regInit, tool, fdt, log>>

\* lines 147-179: scan, reconcile, compute the allocation and, unless
\* dry_run, update the registry in memory; the clock is read at time t
reconcile_allocate(p, dry_run, scan, t) ==
    /\ pc[p] = "reconcile"
    /\ LET scanned == IF scan THEN scan_max_ids(alloc_scan_dir(tree)) ELSE NoScan
           registry == reconcile(loc[p].loaded, scanned, t)
           alloc == allocation(registry, args[p].kind, args[p].pad)
           next == after_allocation(registry, args[p].kind, dry_run, alloc, t)
       IN  /\ loc' = [loc EXCEPT ![p].registry = next.registry, ![p].alloc = alloc]
           /\ pc' = [pc EXCEPT ![p] = next.pc]
    /\ args' = [args EXCEPT ![p].dry_run = dry_run, ![p].scan = scan]
    /\ now' = t
    /\ UNCHANGED <<metaDir, lockFile, regFile, tmpFile, tree, regInit, tool, fdt, log>>

(***************************************************************************)
(* write_json_atomic, used by allocate_next_id and by ensure_registry.     *)
(***************************************************************************)
\* lines 54-56: mkdir, then open(tmp_path, "w") creates or truncates the file
write_json_atomic_open(p) ==
    /\ pc[p] = "open_tmp"
    /\ metaDir' = TRUE
    /\ tmpFile' = Empty
    /\ fdt' = [fdt EXCEPT ![p] = "tmp"]
    /\ pc' = [pc EXCEPT ![p] = "write_tmp"]
    /\ UNCHANGED <<now, lockFile, regFile, tree, regInit, tool, args, loc, log>>

\* lines 57-58 and the end of the with block: the buffered serialization
\* is written at offset 0 of the file the descriptor refers to, which is
\* the registry itself when another writer renamed the file meanwhile
write_json_atomic_write(p) ==
    /\ pc[p] = "write_tmp"
    /\ tmpFile' = IF fdt[p] = "tmp" THEN WriteAt0(tmpFile, loc[p].registry) ELSE tmpFile
    /\ regFile' = IF fdt[p] = "reg" THEN WriteAt0(regFile, loc[p].registry) ELSE regFile
    /\ loc' = [loc EXCEPT ![p].wrote = (loc[p].wrote \/ fdt[p] = "reg")]
    /\ fdt' = [fdt EXCEPT ![p] = "none"]
    /\ pc' = [pc EXCEPT ![p] = "replace"]
    /\ UNCHANGED <<now, metaDir, lockFile, tree, regInit, tool, args, log>>

\* a write_json_atomic that writes the registry in place: the failed write
\* leaves part of the bytes in registry.json
write_json_atomic_write_fail_in_place(p) ==
    /\ pc[p] = "write_tmp"
    /\ regFile' = Garbled
    /\ fdt' = [fdt EXCEPT ![p] = "none"]
    /\ loc' = [loc EXCEPT ![p].exc = "OSError"]
    /\ pc' = [pc EXCEPT ![p] = ExitPc(p)]
    /\ UNCHANGED <<now, metaDir, lockFile, tmpFile, tree, regInit, tool, args, log>>

\* lines 57-58: the write fails (disk full); part of the bytes is in the file
write_json_atomic_write_fail(p) ==
    /\ pc[p] = "write_tmp"
    /\ tmpFile' = IF fdt[p] = "tmp" THEN Garbled ELSE tmpFile
    /\ regFile' = IF fdt[p] = "reg" THEN Garbled ELSE regFile
    /\ fdt' = [fdt EXCEPT ![p] = "none"]
    /\ loc' = [loc EXCEPT ![p].exc = "OSError",
                         ![p].wrote = (loc[p].wrote \/ fdt[p] = "reg")]
    /\ pc' = [pc EXCEPT ![p] = ExitPc(p)]
    /\ UNCHANGED <<now, metaDir, lockFile, tree, regInit, tool, args, log>>

\* line 59: os.replace(tmp_path, path) renames the temporary file over the
\* registry; descriptors open on either file follow their file
write_json_atomic_replace(p) ==
    /\ pc[p] = "replace"
    /\ tmpFile # Absent
    /\ regFile' = tmpFile
    /\ tmpFile' = Absent
    /\ fdt' = [q \in Procs |-> IF fdt[q] = "tmp" THEN "reg"
                               ELSE IF fdt[q] = "reg" THEN "orphan"
                               ELSE fdt[q]]
    /\ loc' = [loc EXCEPT ![p].wrote = TRUE]
    /\ pc' = [pc EXCEPT ![p] = ExitPc(p)]
    /\ UNCHANGED <<now, metaDir, lockFile, tree, regInit, tool, args, log>>

\* line 59: os.replace raises FileNotFoundError, another writer having
\* renamed the shared temporary file away
write_json_atomic_replace_enoent(p) ==
    /\ pc[p] = "replace"
    /\ tmpFile = Absent
    /\ loc' = [loc EXCEPT ![p].exc = "OSError"]
    /\ pc' = [pc EXCEPT ![p] = ExitPc(p)]
    /\ UNCHANGED <<now, metaDir, lockFile, regFile, tmpFile, tree, regInit, tool,
                   args, fdt, log>>

(***************************************************************************)
(* release_lock, in the finally clause of allocate_next_id.                *)
(***************************************************************************)
\* a release_lock that closes the descriptor and leaves the lock file
release_lock_keeps_file(p) ==
    /\ pc[p] = "release"
    /\ Return(p, [Entry(p, Outcome(p)) EXCEPT !.releases = loc[p].releases + 1])
    /\ UNCHANGED <<now, metaDir, lockFile, regFile, tmpFile, tree, regInit, fdt>>

\* a release_lock whose unlink lets FileNotFoundError out of the finally
\* clause: the error takes the place of the result or pending exception
release_lock_raises_enoent(p) ==
    /\ pc[p] = "release"
    /\ lockFile' = FALSE
    /\ Return(p, [Entry(p, IF lockFile THEN Outcome(p) ELSE "OSError")
                      EXCEPT !.releases = loc[p].releases + 1])
    /\ UNCHANGED <<now, metaDir, regFile, tmpFile, tree, regInit, fdt>>

\* os.close and os.unlink (a missing file is tolerated); then the result
\* or the pending exception reaches the caller
release_lock(p) ==
    /\ pc[p] = "release"
    /\ lockFile' = FALSE
    /\ Return(p, [Entry(p, Outcome(p)) EXCEPT !.releases = loc[p].releases + 1])
    /\ UNCHANGED <<now, metaDir, regFile, tmpFile, tree, regInit, fdt>>

(***************************************************************************)
(* sa_init: ensure_dirs and ensure_registry.                               *)
(***************************************************************************)
\* sa_init starts; ensure_dirs creates the directories unless --dry-run
sa_init(p, dry_run) ==
    /\ pc[p] = "idle"
    /\ MayStart(p)
    /\ tool' = [tool EXCEPT ![p] = "init"]
    /\ args' = [args EXCEPT ![p].dry_run = dry_run, ![p].scan = TRUE]
    /\ metaDir' = (metaDir \/ ~dry_run)
    /\ pc' = [pc EXCEPT ![p] = "init_check"]
    /\ UNCHANGED <<now, lockFile, regFile, tmpFile, tree, regInit, loc, fdt, log>>

\* lines 52-53: the registry exists, nothing to do
ensure_registry_exists(p) ==
    /\ pc[p] = "init_check"
    /\ regFile # Absent
    /\ pc' = [pc EXCEPT ![p] = "init_exit"]
    /\ UNCHANGED <<now, metaDir, lockFile, regFile, tmpFile, tree, regInit, tool,
                   args, loc, fdt, log>>

\* line 52: the registry does not exist
ensure_registry_missing(p) ==
    /\ pc[p] = "init_check"
    /\ regFile = Absent
    /\ pc' = [pc EXCEPT ![p] = "init_scan"]
    /\ UNCHANGED <<now, metaDir, lockFile, regFile, tmpFile, tree, regInit, tool,
                   args, loc, fdt, log>>

\* lines 54-61: scan, build the registry with the time t, stop here when
\* --dry-run
ensure_registry_build(p, t) ==
    /\ pc[p] = "init_scan"
    /\ loc' = [loc EXCEPT ![p].registry = init_registry(scan_max_ids(init_scan_dir(tree)), t)]
    /\ now' = t
    /\ pc' = [pc EXCEPT ![p] = IF args[p].dry_run THEN "init_exit" ELSE "open_tmp"]
    /\ UNCHANGED <<metaDir, lockFile, regFile, tmpFile, tree, regInit, tool, args,
                   fdt, log>>

\* ensure_registry returns, or the error of write_json_atomic ends sa_init
ensure_registry_return(p) ==
    /\ pc[p] = "init_exit"
    /\ Return(p, Entry(p, Outcome(p)))
    /\ UNCHANGED <<now, metaDir, lockFile, regFile, tmpFile, tree, regInit, fdt>>

(***************************************************************************)
(* Specifications.                                                         *)
(***************************************************************************)
\* processes that run the allocator
Next ==
    \/ \E p \in Procs : allocate_next_id(p)
    \/ \E p \in Procs : acquire_lock(p)
    \/ \E p \in Procs : \E timeout \in TimeoutArg(p) : \E elapsed \in Elapsed(p) :
           acquire_lock_sleep(p, timeout, elapsed)
    \/ \E p \in Procs : \E timeout \in TimeoutArg(p) : \E elapsed \in Elapsed(p) :
           acquire_lock_timeout(p, timeout, elapsed)
    \/ \E p \in Procs : check_kind_fail(p)
    \/ \E p \in Procs : \E kind \in KIND_CHOICES : load(p, kind, CallerPad[kind])
    \/ \E p \in Procs : \E kind \in KIND_CHOICES : load_corrupt(p, kind)
    \/ \E p \in Procs : \E dry_run \in BOOLEAN : \E scan \in BOOLEAN :
           \E t \in ClockValues : reconcile_allocate(p, dry_run, scan, t)
    \/ \E p \in Procs : write_json_atomic_open(p)
    \/ \E p \in Procs : write_json_atomic_write(p)
    \/ \E p \in Procs : write_json_atomic_write_fail(p)
    \/ \E p \in Procs : write_json_atomic_replace(p)
    \/ \E p \in Procs : release_lock(p)

Spec == Init /\ [][Next]_vars

\* processes that run the allocator or sa_init
NextInit ==
    \/ Next
    \/ \E p \in Procs : \E dry_run \in BOOLEAN : sa_init(p, dry_run)
    \/ \E p \in Procs : ensure_registry_exists(p)
    \/ \E p \in Procs : ensure_registry_missing(p)
    \/ \E p \in Procs : \E t \in ClockValues : ensure_registry_build(p, t)
    \/ \E p \in Procs : ensure_registry_return(p)
    \/ \E p \in Procs : write_json_atomic_replace_enoent(p)

SpecInit == Init /\ [][NextInit]_vars

(***************************************************************************)
(* One caller at a time, with any pad: the command line of sa_id.py, which *)
(* checks the pad in main, or a direct call of allocate_next_id.           *)
(***************************************************************************)
Single == {1}

\* main lines 299-300: --pad <= 0 raises ValueError before
\* allocate_next_id is called
main_invalid_pad(p, pad) ==
    /\ pc[p] = "idle"
    /\ pad <= 0
    /\ Return(p, [Entry(p, "InvalidArgument") EXCEPT !.tool = "cli", !.pad = pad])
    /\ UNCHANGED <<now, metaDir, lockFile, regFile, tmpFile, tree, regInit, fdt>>

NextPad ==
    \/ \E p \in Single : \E pad \in Pads : main_invalid_pad(p, pad)
    \/ \E p \in Single : allocate_next_id(p)
    \/ \E p \in Single : acquire_lock(p)
    \/ \E p \in Single : check_kind_fail(p)
    \/ \E p \in Single : \E kind \in KIND_CHOICES : \E pad \in Pads : load(p, kind, pad)
    \/ \E p \in Single : \E kind \in KIND_CHOICES : load_corrupt(p, kind)
    \/ \E p \in Single : \E dry_run \in BOOLEAN : \E scan \in BOOLEAN :
           \E t \in ClockValues : reconcile_allocate(p, dry_run, scan, t)
    \/ \E p \in Single : write_json_atomic_open(p)
    \/ \E p \in Single : write_json_atomic_write(p)
    \/ \E p \in Single : write_json_atomic_write_fail(p)
    \/ \E p \in Single : write_json_atomic_replace(p)
    \/ \E p \in Single : release_lock(p)

SpecPad == Init /\ [][NextPad]_vars

(***************************************************************************)
(* Crashes.                                                                *)
(***************************************************************************)
\* the process dies between the return of acquire_lock and the unlink of
\* release_lock: its descriptors are closed, its files stay
crash(p) ==
    /\ loc[p].handle
    /\ pc' = [pc EXCEPT ![p] = "crashed"]
    /\ tool' = [tool EXCEPT ![p] = "none"]
    /\ args' = [args EXCEPT ![p] = NoArgs]
    /\ loc' = [loc EXCEPT ![p] = InitLoc]
    /\ fdt' = [fdt EXCEPT ![p] = "none"]
    /\ UNCHANGED <<now, metaDir, lockFile, regFile, tmpFile, tree, regInit, log>>

\* processes that run the allocator and may die while they hold the lock
NextCrash ==
    \/ Next
    \/ \E p \in Procs : crash(p)

SpecCrash == Init /\ [][NextCrash]_vars

TypeOK ==
    /\ now \in 0..MaxTime
    /\ Len(log) <= 2 * NumProcs

(***************************************************************************)
(* Properties.                                                             *)
(***************************************************************************)
\* the allocate_next_id calls that returned
Indices == 1..Len(log)

IsIssue(e) == e.tool = "alloc" /\ e.outcome = "ok" /\ ~e.dry_run

\* the successful non-dry-run allocations of kind k, in order of return,
\* which is the order in which they held the lock
IssuedOf(k) == SelectSeq(log, LAMBDA e : IsIssue(e) /\ e.kind = k)

WritePcs == {"open_tmp", "write_tmp", "replace"}

\* C1: no two successful non-dry-run allocations of the same kind return
\* the same id, whatever the interleaving of the allocating processes
UniqueIds ==
    \A k \in KIND_CHOICES :
        \A i \in 1..Len(IssuedOf(k)) : \A j \in 1..Len(IssuedOf(k)) :
            i # j => IssuedOf(k)[i].alloc.id # IssuedOf(k)[j].alloc.id

\* two allocations of one kind were issued, the second one having read the
\* counter the first one stored
UniqueIdsWitness ==
    \E k \in KIND_CHOICES :
        /\ Len(IssuedOf(k)) = 2
        /\ IssuedOf(k)[2].alloc.current = IssuedOf(k)[1].alloc.id

\* C2: at most one process holds the lock, the lock file exists while it is
\* held, and an allocation that is at a step of write_json_atomic holds it
MutualExclusion ==
    /\ Cardinality({p \in Procs : loc[p].handle}) <= 1
    /\ \A p \in Procs : loc[p].handle => lockFile
    /\ \A p \in Procs :
           (tool[p] = "alloc" /\ pc[p] \in WritePcs) => loc[p].handle

\* one process is about to rename the registry while another one, having
\* found the lock file, sleeps before its next attempt
MutualExclusionWitness ==
    \E p \in Procs : \E q \in Procs :
        /\ p # q
        /\ pc[p] = "replace" /\ loc[p].handle
        /\ pc[q] = "acquire" /\ loc[q].polls > 0

\* C3 as stated: every allocate_next_id call that returned has released
\* the lock exactly once, whatever state it failed in
ReleasedExactlyOnce ==
    \A i \in Indices : log[i].tool = "alloc" => log[i].releases = 1

\* C3 amended: a call that acquired the lock has released it exactly once
\* when its result or error reaches the caller; a call that leaves LockWait
\* with LockTimeout never acquired the lock and does not release
ReleasedOnceIfAcquired ==
    /\ \A i \in Indices :
           log[i].tool = "alloc" =>
               /\ log[i].releases = (IF log[i].acquired THEN 1 ELSE 0)
               /\ log[i].acquired <=> (log[i].outcome # "LockTimeout")
    /\ \A p \in Procs : pc[p] = "done" => ~loc[p].handle

\* a call failed inside the guarded section and another one timed out
ReleasedOnceWitness ==
    /\ \E i \in Indices : log[i].outcome \in {"RegistryCorrupt", "OSError", "InvalidKind"}
                          /\ log[i].releases = 1
    /\ \E i \in Indices : log[i].outcome = "LockTimeout"

\* C4 as stated: the ids issued for one kind are base+1, ..., base+N in
\* order of lock acquisition, base being the counter the first allocation
\* observed; from an absent registry with no call scanning they are 1, ..., N
ContiguousIdsAlways ==
    \A k \in KIND_CHOICES :
        LET I == IssuedOf(k) IN
        /\ \A i \in 1..Len(I) : I[i].alloc.id = I[1].alloc.current + i
        /\ (regInit = Absent /\ \A j \in Indices : IsIssue(log[j]) => ~log[j].scan)
              => \A i \in 1..Len(I) : I[i].alloc.id = i

\* the position in the log of the first issued allocation of kind k
FirstIssue(k) ==
    CHOOSE i \in Indices :
        /\ IsIssue(log[i]) /\ log[i].kind = k
        /\ \A j \in 1..(i - 1) : ~(IsIssue(log[j]) /\ log[j].kind = k)

\* no issued allocation after the first one of kind k ran the scan
NoLaterScan(k) ==
    \A j \in Indices : (j > FirstIssue(k) /\ IsIssue(log[j])) => ~log[j].scan

\* C4 amended: the ids issued for one kind strictly increase in order of
\* lock acquisition, each is one more than the counter its call observed,
\* and they are base+1, ..., base+N when no issued allocation after the
\* first one scans; from an absent registry with no call scanning they are
\* 1, ..., N
ContiguousIds ==
    \A k \in KIND_CHOICES :
        LET I == IssuedOf(k) IN
        /\ \A i \in 1..Len(I) : I[i].alloc.id = I[i].alloc.current + 1
        /\ \A i \in 1..(Len(I) - 1) : I[i + 1].alloc.id > I[i].alloc.id
        /\ (Len(I) > 0 /\ NoLaterScan(k))
              => \A i \in 1..Len(I) : I[i].alloc.id = I[1].alloc.current + i
        /\ (regInit = Absent /\ \A j \in Indices : IsIssue(log[j]) => ~log[j].scan)
              => \A i \in 1..Len(I) : I[i].alloc.id = i

\* two allocations of one kind from an absent registry, none scanning
ContiguousIdsWitness ==
    /\ regInit = Absent
    /\ \A j \in Indices : IsIssue(log[j]) => ~log[j].scan
    /\ \E k \in KIND_CHOICES : Len(IssuedOf(k)) = 2

\* the counter of kind k in a registry file that read_registry accepts; a
\* version-1 registry counts last_id for chg and nothing for spec
StoredCounter(f, k) ==
    LET r == read_registry(f) IN
    IF r.doc.schema_version.val = 1
    THEN (IF k = "chg" THEN r.doc.last_id.val ELSE 0)
    ELSE get(r.doc.counters[k], JInt(0)).val

\* C5: no step lowers the stored counter of a kind
CountersNeverDecrease ==
    [][ (read_registry(regFile).status = "ok" /\ read_registry(regFile').status = "ok")
          => \A k \in KIND_CHOICES :
                 StoredCounter(regFile', k) >= StoredCounter(regFile, k) ]_vars

\* an allocation with scanning replaced a version-1 registry
CountersNeverDecreaseWitness ==
    /\ regInit = Full(DocV1(MaxInitId))
    /\ regFile # regInit
    /\ \E i \in Indices : IsIssue(log[i]) /\ log[i].scan

\* C6 as stated: a process that is at a step of write_json_atomic on the
\* registry holds the registry's lock
WritesUnderLock ==
    \A p \in Procs : pc[p] \in WritePcs => (loc[p].handle /\ lockFile)

\* C7 as stated: the registry path never names a file that is not one
\* complete document
RegistryNeverPartial == regFile.kind \in {"absent", "doc"}

\* C8: no step of a dry-run allocation changes the registry file or its
\* temporary sibling
DryRunLeavesRegistry ==
    [][ (\E p \in Procs : /\ tool[p] = "alloc"
                          /\ (args[p].dry_run \/ args'[p].dry_run)
                          /\ pc'[p] # pc[p])
          => (regFile' = regFile /\ tmpFile' = tmpFile) ]_vars

\* a dry run with scanning returned the id after the scanned maximum, and
\* the registry is still absent, as is its temporary sibling
DryRunLeavesRegistryWitness ==
    /\ regInit = Absent
    /\ alloc_scan_dir(tree).chg # {}
    /\ regFile = regInit /\ tmpFile = Absent
    /\ \E i \in Indices : /\ log[i].tool = "alloc" /\ log[i].dry_run /\ log[i].scan
                          /\ log[i].kind = "chg" /\ log[i].outcome = "ok"
                          /\ log[i].alloc.id = SetMax(alloc_scan_dir(tree).chg) + 1

\* a dry run directly followed by a non-dry run of the same kind and scan setting
DryThenReal(i) ==
    /\ log[i].tool = "alloc" /\ log[i + 1].tool = "alloc"
    /\ log[i].dry_run /\ ~log[i + 1].dry_run
    /\ log[i].outcome = "ok" /\ log[i + 1].outcome = "ok"
    /\ log[i].kind = log[i + 1].kind
    /\ log[i].scan = log[i + 1].scan

InvalidKindBeforeLock ==
    /\ \A p \in Procs :
           (tool[p] = "alloc" /\ args[p].kind \notin KIND_CHOICES)
               => ~loc[p].handle
    /\ \A i \in Indices :
           (log[i].tool = "alloc" /\ log[i].kind \notin KIND_CHOICES)
               => (log[i].outcome = "InvalidKind" /\ ~log[i].acquired)

\* the entry a step appends to the log
Returned == log'[Len(log')]

\* C11: an attempt that finds the lock file leads to a sleep only while the
\* timeout has not elapsed, and otherwise ends the call with LockTimeout:
\* the call has read and computed nothing, returns no id, and the step
\* leaves the registry, its temporary sibling and the lock file as they are
LockTimeoutNoWork ==
    [][ \A p \in Procs :
          (pc[p] = "acquire" /\ lockFile /\ (pc'[p] # pc[p] \/ loc'[p] # loc[p]))
          => /\ regFile' = regFile /\ tmpFile' = tmpFile /\ lockFile'
             /\ \/ /\ pc'[p] = "acquire"
                   /\ loc[p].polls < args'[p].timeout
                \/ /\ pc'[p] = "done"
                   /\ log' = Append(log, Returned)
                   /\ Returned.outcome = "LockTimeout"
                   /\ Returned.alloc = NoAllocation
                   /\ ~Returned.acquired
                   /\ loc[p].loaded = RegNone /\ loc[p].registry = NullDoc ]_vars

\* a call timed out while another process holds the lock and has replaced
\* the registry
LockTimeoutNoWorkWitness ==
    /\ \E i \in Indices : log[i].outcome = "LockTimeout"
    /\ lockFile /\ regFile # regInit
    /\ \E p \in Procs : loc[p].handle /\ pc[p] = "release"

\* C12: a call that failed returned no id and has not written the registry,
\* which has its initial content while no call has written it; an error of
\* write_json_atomic reaches the caller as such after the one release
FailedCallLeavesRegistry ==
    /\ \A i \in Indices :
           (log[i].tool = "alloc" /\ log[i].outcome # "ok")
               => /\ log[i].alloc = NoAllocation
                  /\ ~log[i].wrote
                  /\ log[i].outcome = "OSError"
                        => (log[i].acquired /\ log[i].releases = 1)
    /\ \A p \in Procs : (loc[p].exc # "" \/ pc[p] = "acquire") => ~loc[p].wrote
    /\ ((\A i \in Indices : ~log[i].wrote) /\ (\A p \in Procs : ~loc[p].wrote))
          => regFile = regInit

\* a call failed while persisting, another one with RegistryCorrupt or
\* LockTimeout, and the registry is the initial one
FailedCallLeavesRegistryWitness ==
    /\ \E i \in Indices : log[i].outcome = "OSError" /\ log[i].releases = 1
    /\ \E i \in Indices : log[i].outcome \in {"LockTimeout", "InvalidKind"}
    /\ regFile = regInit /\ tmpFile = Garbled

\* a file holding a version>=2 document whose counters.chg is a string that
\* is no number
BadCounterFile(f) ==
    /\ f.kind = "doc"
    /\ f.doc.schema_version.tag = "int" /\ f.doc.schema_version.val >= 2
    /\ f.doc.counters.chg = JStr

\* C13: from such a registry, every call that acquired the lock with a
\* valid kind failed with RegistryCorrupt before it read dry_run or scan,
\* no call returned an id, and the registry is the same file still
CorruptCounterAlwaysFails ==
    BadCounterFile(regInit) =>
        /\ regFile = regInit
        /\ \A i \in Indices :
               log[i].tool = "alloc" =>
                   /\ log[i].outcome \in {"RegistryCorrupt", "LockTimeout", "InvalidKind"}
                   /\ log[i].alloc = NoAllocation
                   /\ (log[i].acquired /\ log[i].kind \in KIND_CHOICES)
                         => log[i].outcome = "RegistryCorrupt"
        /\ \A p \in Procs : pc[p] \notin {"reconcile", "open_tmp", "write_tmp", "replace"}

\* a chg call and then a spec call failed with RegistryCorrupt
CorruptCounterAlwaysFailsWitness ==
    /\ BadCounterFile(regInit)
    /\ Len(log) = 2
    /\ log[1].outcome = "RegistryCorrupt" /\ log[1].kind = "chg"
    /\ log[2].outcome = "RegistryCorrupt" /\ log[2].kind = "spec"

\* a registry file that read_registry accepts as a version>=2 document
IsV2File(f) ==
    /\ read_registry(f).status = "ok"
    /\ read_registry(f).doc.schema_version.val >= 2

\* C14: the rename that ends a scanning allocation over a version>=2
\* registry stores, for each kind, the maximum of the stored counter and of
\* the scanned one, plus one for the kind that is allocated
ScanReconcilesBothKinds ==
    [][ \A p \in Procs :
          (/\ tool[p] = "alloc" /\ pc[p] = "replace" /\ pc'[p] = "release"
           /\ args[p].scan /\ IsV2File(regFile))
          => /\ regFile'.kind = "doc"
             /\ \A k \in KIND_CHOICES :
                    regFile'.doc.counters[k] =
                        JInt(Max(StoredCounter(regFile, k),
                                 scan_max_ids(alloc_scan_dir(tree))[k])
                             + (IF k = args[p].kind THEN 1 ELSE 0)) ]_vars

\* a chg allocation without scanning created the registry and a chg
\* allocation with scanning followed: the spec counter, stored as 0, is now
\* the scanned one
ScanReconcilesBothKindsWitness ==
    /\ regInit = Absent
    /\ Len(log) = 2
    /\ IsIssue(log[1]) /\ ~log[1].scan /\ log[1].kind = "chg"
    /\ IsIssue(log[2]) /\ log[2].scan /\ log[2].kind = "chg"
    /\ scan_max_ids(alloc_scan_dir(tree)).spec > 0
    /\ StoredCounter(regFile, "spec") = scan_max_ids(alloc_scan_dir(tree)).spec

\* C15 as stated: a successful scanning allocation that finds the registry
\* absent returns one more than the largest id of its kind among the
\* artifacts under superagents/
ScanFloor ==
    \A i \in Indices :
        (/\ log[i].tool = "alloc" /\ log[i].outcome = "ok" /\ log[i].scan
         /\ regInit = Absent
         /\ \A j \in 1..(i - 1) : ~log[j].wrote)
        => log[i].alloc.id = SetMax(tree.sa[log[i].kind]) + 1

\* a registry file that read_registry accepts as a version-1 document
IsV1File(f) ==
    /\ read_registry(f).status = "ok"
    /\ read_registry(f).doc.schema_version.val = 1

\* what the scan contributes to a call: nothing when scanning is disabled
ScannedBy(p) ==
    IF args[p].scan THEN scan_max_ids(alloc_scan_dir(tree)) ELSE NoScan

\* C16: the rename that ends the first allocation over a version-1
\* registry with last_id = L puts a version-2 document without last_id in
\* place, whose chg counter is at least L; its counters are
\* max(scanned chg, L) and scanned spec, plus one for the allocated kind
MigrationKeepsLastId ==
    [][ \A p \in Procs :
          (/\ tool[p] = "alloc" /\ pc[p] = "replace" /\ pc'[p] = "release"
           /\ IsV1File(regFile))
          => LET L == regFile.doc.last_id.val
                 d == regFile'.doc
             IN  /\ regFile'.kind = "doc"
                 /\ d.schema_version = JInt(2)
                 /\ d.last_id = JMissing
                 /\ d.counters.chg.val >= L
                 /\ d.counters.chg =
                        JInt(Max(ScannedBy(p).chg, L)
                             + (IF args[p].kind = "chg" THEN 1 ELSE 0))
                 /\ d.counters.spec =
                        JInt(ScannedBy(p).spec
                             + (IF args[p].kind = "spec" THEN 1 ELSE 0)) ]_vars

\* a scanning spec allocation migrated the version-1 registry: chg is
\* last_id and spec is one more than the scanned spec id
MigrationKeepsLastIdWitness ==
    /\ IsV1File(regInit)
    /\ Len(log) = 1 /\ IsIssue(log[1]) /\ log[1].kind = "spec" /\ log[1].scan
    /\ IsV2File(regFile)
    /\ StoredCounter(regFile, "chg") = regInit.doc.last_id.val
    /\ StoredCounter(regFile, "spec") = scan_max_ids(alloc_scan_dir(tree)).spec + 1

\* C17: a lock file that exists is the one of a call in progress that
\* holds it; with no call in progress there is no lock file, so that the
\* first os.open of the next call succeeds
LockReleased ==
    /\ lockFile => \E p \in Procs : loc[p].handle
    /\ (\A p \in Procs : pc[p] \in {"idle", "done"}) => ~lockFile
    /\ \A p \in Procs :
           (pc[p] = "acquire" /\ \A q \in Procs : pc[q] \in {"idle", "done", "acquire"})
               => ~lockFile

\* a call failed while it held the lock, and the call after it acquired
\* the lock and returned; no lock file is left
LockReleasedWitness ==
    /\ Len(log) = 2
    /\ log[1].acquired /\ log[1].outcome \in {"OSError", "InvalidKind", "RegistryCorrupt"}
    /\ log[2].acquired
    /\ \A p \in Procs : pc[p] = "done"
    /\ ~lockFile

\* C18: once a process has crashed holding the lock, the lock file stays,
\* no process acquires it, no step changes the registry, and every call
\* that ends does so with LockTimeout and without an id
AbandonedLockBlocks ==
    [][ (\E q \in Procs : pc[q] = "crashed")
          => /\ lockFile /\ lockFile'
             /\ regFile' = regFile
             /\ \A p \in Procs : ~loc'[p].handle
             /\ log' # log
                   => /\ Returned.outcome = "LockTimeout"
                      /\ Returned.alloc = NoAllocation ]_vars

\* a process crashed holding the lock and the call of the other process
\* ended with LockTimeout; the lock file is still there
AbandonedLockBlocksWitness ==
    /\ \E q \in Procs : pc[q] = "crashed"
    /\ \A p \in Procs : pc[p] \in {"crashed", "done"}
    /\ Len(log) > 0 /\ log[Len(log)].outcome = "LockTimeout"
    /\ lockFile

\* C19 as stated: a call with pad <= 0 ends with InvalidArgument, returns
\* no id and has not written the registry
InvalidPadRejected ==
    \A i \in Indices :
        log[i].pad <= 0
            => /\ log[i].outcome = "InvalidArgument"
               /\ log[i].alloc = NoAllocation
               /\ ~log[i].wrote

\* the value of a decimal digit, -1 for another character
DigitValue(c) ==
    CASE c = "0" -> 0 [] c = "1" -> 1 [] c = "2" -> 2 [] c = "3" -> 3
      [] c = "4" -> 4 [] c = "5" -> 5 [] c = "6" -> 6 [] c = "7" -> 7
      [] c = "8" -> 8 [] c = "9" -> 9 [] OTHER -> -1

\* the number a string of decimal digits denotes
RECURSIVE ParseDecimal(_)
ParseDecimal(s) ==
    IF s = <<>> THEN 0
    ELSE 10 * ParseDecimal(SubSeq(s, 1, Len(s) - 1)) + DigitValue(s[Len(s)])

\* the number of decimal digits of an id of the model
NumDigits(n) == IF n < 10 THEN 1 ELSE IF n < 100 THEN 2 ELSE 3

\* C20: the stable id of a returned allocation is CHG or SPEC, a hyphen and
\* the padded id; the padded id consists of digits, is as long as the pad
\* or as the id when that is longer, and denotes the id; the first chg
\* allocation with pad 6 from an absent registry and an empty scan returns
\* 1, 000001 and CHG-000001
StableIdFormat ==
    \A i \in Indices :
        (log[i].tool = "alloc" /\ log[i].outcome = "ok")
        => LET a == log[i].alloc
               prefix == IF log[i].kind = "chg" THEN <<"C", "H", "G">>
                         ELSE <<"S", "P", "E", "C">>
           IN  /\ a.stable_id = prefix \o <<"-">> \o a.padded_id
               /\ Len(a.padded_id) = Max(log[i].pad, NumDigits(a.id))
               /\ \A j \in 1..Len(a.padded_id) : DigitValue(a.padded_id[j]) >= 0
               /\ ParseDecimal(a.padded_id) = a.id
               /\ (/\ regInit = Absent /\ \A j \in 1..(i - 1) : ~log[j].wrote
                   /\ log[i].kind = "chg" /\ log[i].pad = 6
                   /\ (log[i].scan => alloc_scan_dir(tree).chg = {}))
                  => /\ a.id = 1
                     /\ a.padded_id = <<"0", "0", "0", "0", "0", "1">>
                     /\ a.stable_id = <<"C", "H", "G", "-", "0", "0", "0", "0", "0", "1">>

\* an id of two digits was returned for a pad of 1
StableIdFormatWitness ==
    \E i \in Indices :
        /\ log[i].tool = "alloc" /\ log[i].outcome = "ok"
        /\ log[i].pad = 1 /\ log[i].alloc.id >= 10
        /\ Len(log[i].alloc.padded_id) = 2

(***************************************************************************)
(* The command line of sa_id.py: main and the __main__ block.  One process *)
(* is one invocation; a lock file left by a holder that died may exist     *)
(* when it starts.                                                         *)
(***************************************************************************)
InitCli ==
    /\ now = 0
    /\ \E project \in InitProjects : regFile = project.reg /\ tree = project.tree
    /\ regInit = regFile
    /\ lockFile \in BOOLEAN
    /\ metaDir = (regFile # Absent \/ lockFile)
    /\ tmpFile = Absent
    /\ pc = [p \in Procs |-> "idle"]
    /\ tool = [p \in Procs |-> "none"]
    /\ args = [p \in Procs |-> NoArgs]
    /\ loc = [p \in Procs |-> InitLoc]
    /\ fdt = [p \in Procs |-> "none"]
    /\ log = <<>>

\* parse_args line 274: argparse refuses a --kind outside KIND_CHOICES and
\* ends the process before main does anything else
main_invalid_kind(p) ==
    /\ pc[p] = "idle"
    /\ Return(p, [Entry(p, "InvalidKind") EXCEPT !.tool = "cli", !.kind = BadKind])
    /\ UNCHANGED <<now, metaDir, lockFile, regFile, tmpFile, tree, regInit, fdt>>

\* a __main__ block that catches ValueError alone
sys_exit_value_error_only(outcome) ==
    IF outcome = "ok" THEN 0
    ELSE IF outcome \in {"InvalidKind", "InvalidArgument", "RegistryCorrupt"} THEN 2
    ELSE 1

\* lines 346-351: the exit status; argparse exits with 2 itself, ValueError
\* and TimeoutError are caught and turned into 2, any other exception ends
\* the interpreter with 1
sys_exit(outcome) ==
    IF outcome = "ok" THEN 0
    ELSE IF outcome \in {"InvalidKind", "InvalidArgument", "RegistryCorrupt",
                         "LockTimeout"} THEN 2
    ELSE 1

\* lines 320-341: what main prints on standard output, without --type,
\* --slug and --json the padded id; nothing when an exception left main
main_stdout(entry) ==
    IF entry.outcome = "ok" THEN entry.alloc.padded_id ELSE <<>>

\* the process ends: its output and exit status join the record of the call
main_exit(p) ==
    /\ pc[p] = "done"
    /\ Len(log) > 0
    /\ LET entry == log[Len(log)]
       IN  log' = [log EXCEPT ![Len(log)] =
                      entry @@ [status |-> sys_exit(entry.outcome),
                                stdout |-> main_stdout(entry)]]
    /\ pc' = [pc EXCEPT ![p] = "exited"]
    /\ UNCHANGED <<now, metaDir, lockFile, regFile, tmpFile, tree, regInit, tool,
                   args, loc, fdt>>

NextCli ==
    \/ \E p \in Single : main_invalid_kind(p)
    \/ \E p \in Single : \E pad \in Pads : main_invalid_pad(p, pad)
    \/ \E p \in Single : allocate_next_id(p)
    \/ \E p \in Single : acquire_lock(p)
    \/ \E p \in Single : \E timeout \in TimeoutArg(p) : \E elapsed \in Elapsed(p) :
           acquire_lock_sleep(p, timeout, elapsed)
    \/ \E p \in Single : \E timeout \in TimeoutArg(p) : \E elapsed \in Elapsed(p) :
           acquire_lock_timeout(p, timeout, elapsed)
    \/ \E p \in Single : \E kind \in KIND_CHOICES : \E pad \in Pads \ {0} :
           load(p, kind, pad)
    \/ \E p \in Single : \E kind \in KIND_CHOICES : load_corrupt(p, kind)
    \/ \E p \in Single : \E dry_run \in BOOLEAN : \E scan \in BOOLEAN :
           \E t \in ClockValues : reconcile_allocate(p, dry_run, scan, t)
    \/ \E p \in Single : write_json_atomic_open(p)
    \/ \E p \in Single : write_json_atomic_write(p)
    \/ \E p \in Single : write_json_atomic_write_fail(p)
    \/ \E p \in Single : write_json_atomic_replace(p)
    \/ \E p \in Single : release_lock(p)
    \/ \E p \in Single : main_exit(p)

SpecCli == InitCli /\ [][NextCli]_vars

\* the record of the invocation that has ended
Exited == log[Len(log)]

IsShapeV1(d) ==
    /\ get(d.schema_version, JInt(1)) = JInt(1)
    /\ d.last_id.tag # "missing"
    /\ d.counters = NoCounters

\* a complete version>=2 document: counters, updated_at and no last_id
IsShapeV2(d) ==
    /\ d.schema_version.tag = "int" /\ d.schema_version.val >= 2
    /\ d.counters.chg.tag # "missing" /\ d.counters.spec.tag # "missing"
    /\ d.updated_at.tag # "missing"
    /\ d.last_id.tag = "missing"

\* C22 as stated: the registry file, when it exists, is one complete
\* version-1 document or one complete version>=2 document; while a
\* version-1 registry is migrated the path names the old document until the
\* one rename puts the whole new one in place
RegistryOneShape ==
    /\ regFile.kind # "absent"
          => (regFile.kind = "doc"
              /\ (IsShapeV1(regFile.doc) \/ IsShapeV2(regFile.doc)))
    /\ IsShapeV1(regInit.doc)
          => (regFile = regInit \/ (regFile.kind = "doc" /\ IsShapeV2(regFile.doc)))

\* the position in the log of the last issued allocation of kind k
LastIssue(k) ==
    CHOOSE i \in Indices :
        /\ IsIssue(log[i]) /\ log[i].kind = k
        /\ \A j \in (i + 1)..Len(log) : ~(IsIssue(log[j]) /\ log[j].kind = k)

\* an allocation issued after the last one of kind k ran the scan
ScannedSince(k) ==
    \E j \in Indices : j > LastIssue(k) /\ IsIssue(log[j]) /\ log[j].scan

\* C23: a non-dry-run allocation that has persisted and is about to return
\* has put its registry in place with counters[kind] equal to its id; and
\* whenever no process holds the lock, the stored counter of a kind with an
\* issued id is the last id issued for it, or that id reconciled with the
\* scan by an allocation of the other kind issued since
PersistedCounterIsReturnedId ==
    /\ \A p \in Procs :
           (/\ tool[p] = "alloc" /\ pc[p] = "release" /\ loc[p].exc = ""
            /\ ~args[p].dry_run)
           => /\ regFile = Full(loc[p].registry)
              /\ regFile.doc.counters[args[p].kind] = JInt(loc[p].alloc.id)
    /\ (\A p \in Procs : ~loc[p].handle)
          => \A k \in KIND_CHOICES :
                 Len(IssuedOf(k)) > 0
                 => /\ read_registry(regFile).status = "ok"
                    /\ StoredCounter(regFile, k) =
                           IF ScannedSince(k)
                           THEN Max(log[LastIssue(k)].alloc.id,
                                    scan_max_ids(alloc_scan_dir(tree))[k])
                           ELSE log[LastIssue(k)].alloc.id

\* id 1 was issued for chg without scanning, then a scanning allocation of
\* spec reconciled the chg counter up to the scanned 2; the spec counter is
\* the id that allocation returned
PersistedCounterIsReturnedIdWitness ==
    /\ \A p \in Procs : ~loc[p].handle
    /\ Len(IssuedOf("chg")) = 1 /\ Len(IssuedOf("spec")) = 1
    /\ ScannedSince("chg")
    /\ StoredCounter(regFile, "chg") > log[LastIssue("chg")].alloc.id
    /\ StoredCounter(regFile, "spec") = log[LastIssue("spec")].alloc.id

(***************************************************************************)
(* One call of allocate_next_id on a registry file that holds any JSON     *)
(* object with the fields read_registry looks at.                          *)
(***************************************************************************)
\* values of schema_version: absent, a string that is no number, integers
SchemaVersions == {JMissing, JStr, JInt(-1), JInt(0), JInt(1), JInt(2), JInt(3)}

\* values of last_id
LastIds == {JMissing, JStr, JInt(-MaxInitId), JInt(0), JInt(MaxInitId)}

\* values of one counter
CounterValues == {JMissing, JInt(-MaxInitId), JInt(1)}

\* documents with last_id and documents with counters and updated_at
LoadDocs ==
    {MkDoc(sv, last, NoCounters, JMissing) : sv \in SchemaVersions, last \in LastIds}
      \cup {MkDoc(sv, JMissing, [chg |-> c, spec |-> s], JInt(0)) :
                sv \in SchemaVersions, c \in CounterValues, s \in CounterValues}

InitLoad ==
    /\ now = 0
    /\ \E d \in LoadDocs : regFile = Full(d)
    /\ tree \in {DefaultTree, FlatTree}
    /\ regInit = regFile
    /\ metaDir = TRUE
    /\ lockFile = FALSE
    /\ tmpFile = Absent
    /\ pc = [p \in Procs |-> "idle"]
    /\ tool = [p \in Procs |-> "none"]
    /\ args = [p \in Procs |-> NoArgs]
    /\ loc = [p \in Procs |-> InitLoc]
    /\ fdt = [p \in Procs |-> "none"]
    /\ log = <<>>

NextLoad ==
    \/ \E p \in Single : allocate_next_id(p)
    \/ \E p \in Single : acquire_lock(p)
    \/ \E p \in Single : check_kind_fail(p)
    \/ \E p \in Single : \E kind \in KIND_CHOICES : load(p, kind, CallerPad[kind])
    \/ \E p \in Single : \E kind \in KIND_CHOICES : load_corrupt(p, kind)
    \/ \E p \in Single : \E dry_run \in BOOLEAN : \E scan \in BOOLEAN :
           \E t \in ClockValues : reconcile_allocate(p, dry_run, scan, t)
    \/ \E p \in Single : write_json_atomic_open(p)
    \/ \E p \in Single : write_json_atomic_write(p)
    \/ \E p \in Single : write_json_atomic_write_fail(p)
    \/ \E p \in Single : write_json_atomic_replace(p)
    \/ \E p \in Single : release_lock(p)

SpecLoad == InitLoad /\ [][NextLoad]_vars

\* a document whose counters are integers that are not negative
CountersNonNegative(d) ==
    \A k \in KIND_CHOICES : d.counters[k].tag = "int" /\ d.counters[k].val >= 0

RejectedAtLoad ==
    /\ regFile = regInit
    /\ \A i \in Indices :
           (log[i].tool = "alloc" /\ log[i].acquired /\ log[i].kind \in KIND_CHOICES)
               => (log[i].outcome = "RegistryCorrupt" /\ log[i].alloc = NoAllocation)
    /\ \A p \in Procs : pc[p] \notin ({"reconcile"} \cup WritePcs)
    /\ \A p \in Procs : pc[p] = "release" => loc[p].exc # ""

\* C25 as stated: a version-1 registry whose last_id is missing, is no
\* number or is negative is rejected with RegistryCorrupt and no allocation
\* proceeds
V1RequiresNonNegativeLastId ==
    (/\ regInit.kind = "doc"
     /\ regInit.doc.schema_version = JInt(1)
     /\ \/ regInit.doc.last_id.tag # "int"
        \/ regInit.doc.last_id.val < 0)
    => RejectedAtLoad

\* C26 as stated: a registry without schema_version is read as the same
\* document with schema_version 1, and a schema_version that is neither 1
\* nor an integer >= 2 is rejected with RegistryCorrupt, no allocation
\* proceeding from it
SchemaVersionChecked ==
    regInit.kind = "doc" =>
        LET sv == regInit.doc.schema_version IN
        /\ sv = JMissing
              => read_registry(regInit)
                     = read_registry(Full([regInit.doc EXCEPT !.schema_version = JInt(1)]))
        /\ (sv # JMissing /\ sv # JInt(1) /\ ~(sv.tag = "int" /\ sv.val >= 2))
              => RejectedAtLoad

\* the clock readings time.time() - start can give
ElapsedValues == 0..MaxTime

\* C27: a call at an attempt that finds no lock file can only take the
\* lock, whatever its timeout and however long it has waited: the attempt
\* returns the handle and neither sleeps nor times out; LockTimeout is
\* possible only at an attempt that finds the lock file with the elapsed
\* time at or past the timeout; a call that holds the lock is past
\* acquire_lock and cannot time out, and no call that acquired the lock
\* ended with LockTimeout
AcquireAttempts ==
    /\ \A p \in Procs :
           (pc[p] = "acquire" /\ ~lockFile)
           => /\ ENABLED acquire_lock(p)
              /\ ~ENABLED (acquire_lock(p) /\ ~(loc'[p].handle /\ pc'[p] = "locked"))
              /\ \A timeout \in Timeouts : \A elapsed \in ElapsedValues :
                     /\ ~ENABLED acquire_lock_timeout(p, timeout, elapsed)
                     /\ ~ENABLED acquire_lock_sleep(p, timeout, elapsed)
    /\ \A p \in Procs : \A timeout \in Timeouts : \A elapsed \in ElapsedValues :
           ENABLED acquire_lock_timeout(p, timeout, elapsed)
               => (pc[p] = "acquire" /\ lockFile /\ ~loc[p].handle /\ elapsed >= timeout)
    /\ \A p \in Procs : loc[p].handle => pc[p] \notin {"idle", "acquire"}
    /\ \A i \in Indices : log[i].acquired => log[i].outcome # "LockTimeout"

\* a call found the lock file, slept, and took the lock at a later attempt,
\* the first holder having returned
AcquireAttemptsWitness ==
    /\ \E p \in Procs : loc[p].handle /\ loc[p].polls > 0 /\ args[p].timeout > 0
    /\ Len(log) = 1 /\ log[1].acquired

\* C28: a step that removes the lock file is the release_lock of the
\* process that created it and holds it, which thereby ends its call with
\* one release; a step of a call that waits for the lock or times out
\* leaves the lock file of the holder in place
LockRemovedByHolder ==
    [][ /\ (lockFile /\ ~lockFile')
           => \E p \in Procs :
                  /\ loc[p].handle /\ loc[p].acquired /\ pc[p] = "release"
                  /\ pc'[p] = "done" /\ ~loc'[p].handle
                  /\ log' = Append(log, Returned)
                  /\ Returned.acquired /\ Returned.releases = 1
                  /\ \A q \in Procs \ {p} : pc'[q] = pc[q] /\ loc'[q] = loc[q]
        /\ \A p \in Procs :
               (pc[p] = "acquire" /\ lockFile /\ (pc'[p] # pc[p] \/ loc'[p] # loc[p]))
               => (lockFile' /\ ~loc'[p].handle) ]_vars

\* a waiter timed out while the holder was at work, without a release, and
\* the holder then released the lock once
LockRemovedByHolderWitness ==
    /\ Len(log) = 2
    /\ log[1].outcome = "LockTimeout" /\ log[1].releases = 0
    /\ log[2].acquired /\ log[2].releases = 1 /\ log[2].outcome = "ok"
    /\ ~lockFile

\* C29 as stated: a step of sa_init that changes the registry file creates
\* it, the path naming no file before the step; in particular it lowers no
\* counter of a registry that was there
InitNeverReplaces ==
    [][ \A p \in Procs :
          (tool[p] = "init" /\ pc'[p] # pc[p] /\ regFile' # regFile)
          => /\ regFile = Absent
             /\ (read_registry(regFile).status = "ok"
                 /\ read_registry(regFile').status = "ok")
                   => \A k \in KIND_CHOICES :
                          StoredCounter(regFile', k) >= StoredCounter(regFile, k) ]_vars

(***************************************************************************)
(* sa_new: allocate a chg id, then create the task directory named after   *)
(* it.  The registry is always <dir>/.sa/registry.json, the directories    *)
(* are made under <dir>/tasks/.                                            *)
(***************************************************************************)
\* sa_new.py line 73: timeout_sec = 10.0, the whole horizon of the model
NewTimeout == MaxTime

\* main lines 60-69: superagents/ exists, the slug is valid;
\* allocate_next_id is entered
sa_new(p) ==
    /\ pc[p] = "idle"
    /\ MayStart(p)
    /\ tool' = [tool EXCEPT ![p] = "new"]
    /\ metaDir' = TRUE
    /\ pc' = [pc EXCEPT ![p] = "acquire"]
    /\ UNCHANGED <<now, lockFile, regFile, tmpFile, tree, regInit, args, loc, fdt, log>>

\* main lines 78-105: the name is <padded_id>_<type>_<slug>; the change,
\* plan and runs directories of that name are created under superagents/
sa_new_mkdir(p) ==
    /\ pc[p] = "mkdir"
    /\ tree' = [tree EXCEPT !.sa.chg = @ \cup {loc[p].alloc.id}]
    /\ log' = Append(log, [Entry(p, "ok") EXCEPT !.tool = "mkdir"])
    /\ pc' = [pc EXCEPT ![p] = "done"]
    /\ tool' = [tool EXCEPT ![p] = "none"]
    /\ loc' = [loc EXCEPT ![p] = InitLoc]
    /\ UNCHANGED <<now, metaDir, lockFile, regFile, tmpFile, regInit, args, fdt>>

\* concurrent non-dry-run sa_new runs
NextNew ==
    \/ \E p \in Procs : sa_new(p)
    \/ \E p \in Procs : acquire_lock(p)
    \/ \E p \in Procs : \E elapsed \in Elapsed(p) :
           acquire_lock_sleep(p, NewTimeout, elapsed)
    \/ \E p \in Procs : \E elapsed \in Elapsed(p) :
           acquire_lock_timeout(p, NewTimeout, elapsed)
    \/ \E p \in Procs : load(p, "chg", DefaultPad)
    \/ \E p \in Procs : load_corrupt(p, "chg")
    \/ \E p \in Procs : \E t \in ClockValues : reconcile_allocate(p, FALSE, TRUE, t)
    \/ \E p \in Procs : write_json_atomic_open(p)
    \/ \E p \in Procs : write_json_atomic_write(p)
    \/ \E p \in Procs : write_json_atomic_write_fail(p)
    \/ \E p \in Procs : write_json_atomic_replace(p)
    \/ \E p \in Procs : release_lock(p)
    \/ \E p \in Procs : sa_new_mkdir(p)

SpecNew == Init /\ [][NextNew]_vars

\* the numeric prefix of the name of the directory a run created
DirPrefix(e) == e.alloc.padded_id

\* C30: the task directories created by sa_new runs carry pairwise
\* different numeric prefixes, each run having created the directory of the
\* id it was given; this includes the runs that found no registry
TaskDirPrefixesDistinct ==
    /\ \A i \in Indices : \A j \in Indices :
           (i # j /\ log[i].tool = "mkdir" /\ log[j].tool = "mkdir")
               => DirPrefix(log[i]) # DirPrefix(log[j])
    /\ \A i \in Indices :
           log[i].tool = "mkdir"
               => \E j \in 1..(i - 1) :
                      /\ log[j].tool = "new" /\ log[j].outcome = "ok"
                      /\ log[j].alloc = log[i].alloc
                      /\ log[i].alloc.id \in tree.sa.chg

\* every run started without a registry, received its id and created its
\* directory; the first one to hold the lock built the registry
TaskDirPrefixesDistinctWitness ==
    /\ regInit = Absent
    /\ \A p \in Procs : pc[p] = "done"
    /\ Cardinality({i \in Indices : log[i].tool = "mkdir"}) = NumProcs
    /\ \E i \in Indices : log[i].tool = "mkdir" /\ log[i].alloc.id = NumProcs

(***************************************************************************)
(* sa_doctor, and projects whose task directories are all made by sa_new.  *)
(***************************************************************************)
\* sa_doctor.py lines 58-87: the registry is read and the tree under
\* superagents/ scanned; the chg conflict is reported when the scanned
\* maximum exceeds last_id (version 1) or counters.chg (version>=2)
doctor_chg_conflict(f, trees) ==
    LET registry == read_registry(f)
        scanned == scan_max_ids(init_scan_dir(trees))
    IN  /\ registry.status = "ok"
        /\ IF get(registry.doc.schema_version, JInt(1)).val = 1
           THEN scanned.chg > get(registry.doc.last_id, JInt(0)).val
           ELSE scanned.chg > get(registry.doc.counters.chg, JInt(0)).val

\* a project without artifacts
FreshTree == [sa |-> NoArtifacts, regdir |-> NoArtifacts]

\* the registries such a project can start with: none, the one sa_init
\* builds, a version-1 one, one that read_registry rejects
FreshRegistries ==
    {Absent, Full(init_registry(NoScan, 0)), Full(DocV1(MaxInitId)),
     Full(DocBadCounter(0, 0))}

InitFresh ==
    /\ now = 0
    /\ regFile \in FreshRegistries
    /\ tree = FreshTree
    /\ regInit = regFile
    /\ metaDir = (regFile # Absent)
    /\ lockFile = FALSE
    /\ tmpFile = Absent
    /\ pc = [p \in Procs |-> "idle"]
    /\ tool = [p \in Procs |-> "none"]
    /\ args = [p \in Procs |-> NoArgs]
    /\ loc = [p \in Procs |-> InitLoc]
    /\ fdt = [p \in Procs |-> "none"]
    /\ log = <<>>

\* sa_new runs and sa_init runs on such a project
NextFresh ==
    \/ NextNew
    \/ \E p \in Procs : \E dry_run \in BOOLEAN : sa_init(p, dry_run)
    \/ \E p \in Procs : ensure_registry_exists(p)
    \/ \E p \in Procs : ensure_registry_missing(p)
    \/ \E p \in Procs : \E t \in ClockValues : ensure_registry_build(p, t)
    \/ \E p \in Procs : ensure_registry_return(p)
    \/ \E p \in Procs : write_json_atomic_replace_enoent(p)

SpecFresh == InitFresh /\ [][NextFresh]_vars

\* C31: every task directory having been created by sa_new after its
\* allocation, in every state where a registry exists the chg counter is at
\* least the largest numeric prefix of the task directories: sa_doctor has
\* no chg conflict to report
DoctorNeverReportsChgConflict ==
    ~doctor_chg_conflict(regFile, tree)

(***************************************************************************)
(* One call of allocate_next_id on a version>=2 registry whose counters    *)
(* hold a key that is no kind.                                             *)
(***************************************************************************)
\* values of the counter under the unrecognized key
OtherValues == {JMissing, JStr, JInt(-MaxInitId), JInt(MaxInitId)}

\* {"schema_version": 2 or 3, "counters": {"chg": c, "spec": s, "run": r},
\*  "updated_at": 0}
FrameDocs ==
    {MkDoc(JInt(sv), JMissing, [chg |-> c, spec |-> s, run |-> r], JInt(0)) :
         sv \in {2, 3}, c \in CounterValues, s \in CounterValues, r \in OtherValues}

InitFrame ==
    /\ now = 0
    /\ \E d \in FrameDocs : regFile = Full(d)
    /\ tree \in {DefaultTree, FlatTree}
    /\ regInit = regFile
    /\ metaDir = TRUE
    /\ lockFile = FALSE
    /\ tmpFile = Absent
    /\ pc = [p \in Procs |-> "idle"]
    /\ tool = [p \in Procs |-> "none"]
    /\ args = [p \in Procs |-> NoArgs]
    /\ loc = [p \in Procs |-> InitLoc]
    /\ fdt = [p \in Procs |-> "none"]
    /\ log = <<>>

SpecFrame == InitFrame /\ [][NextLoad]_vars

\* the rename that ends a non-dry-run allocation without scanning over a
\* version>=2 registry
FrameStep(p) ==
    /\ tool[p] = "alloc" /\ pc[p] = "replace" /\ pc'[p] = "release"
    /\ ~args[p].scan
    /\ IsV2File(regFile)

\* C32 as stated: such an allocation of kind k leaves schema_version, the
\* value of the other kind and the counter under an unrecognized key as
\* they were stored before the call
AllocationFrame ==
    [][ \A p \in Procs :
          FrameStep(p)
          => LET before == read_registry(regFile).doc
                 after == regFile'.doc
             IN  /\ regFile'.kind = "doc"
                 /\ after.schema_version = before.schema_version
                 /\ DOMAIN after.counters = DOMAIN before.counters
                 /\ \A j \in DOMAIN before.counters \ {args[p].kind} :
                        IF j \in KIND_CHOICES
                        THEN get(after.counters[j], JInt(0)).val
                                 = get(before.counters[j], JInt(0)).val
                        ELSE after.counters[j] = before.counters[j] ]_vars

\* C32: such an allocation of kind k stores one more than the counter of k
\* (0 for a missing or negative one), leaves schema_version and the counter
\* under an unrecognized key as they were, and leaves the value of the
\* other kind as it was unless that value was negative, which becomes 0
AllocationFrameNonNegative ==
    [][ \A p \in Procs :
          FrameStep(p)
          => LET before == read_registry(regFile).doc
                 after == regFile'.doc
             IN  /\ regFile'.kind = "doc"
                 /\ after.schema_version = before.schema_version
                 /\ after.last_id = before.last_id
                 /\ DOMAIN after.counters = DOMAIN before.counters
                 /\ \A j \in DOMAIN before.counters :
                        after.counters[j] =
                            IF j = args[p].kind
                            THEN JInt(Max(get(before.counters[j], JInt(0)).val, 0) + 1)
                            ELSE IF j \in KIND_CHOICES
                            THEN JInt(Max(get(before.counters[j], JInt(0)).val, 0))
                            ELSE before.counters[j] ]_vars

\* a chg allocation without scanning has replaced a version-3 registry
\* whose spec counter was negative: version 3 and the counter under the
\* unrecognized key are as before, the spec counter is 0
AllocationFrameWitness ==
    \E p \in Procs :
        /\ tool[p] = "alloc" /\ pc[p] = "release" /\ loc[p].wrote
        /\ ~args[p].scan /\ args[p].kind = "chg"
        /\ regInit.doc.schema_version = JInt(3)
        /\ regInit.doc.counters.spec = JInt(-MaxInitId)
        /\ regInit.doc.counters[OtherKey] = JInt(MaxInitId)
        /\ regFile.doc.schema_version = JInt(3)
        /\ regFile.doc.counters.spec = JInt(0)
        /\ regFile.doc.counters[OtherKey] = JInt(MaxInitId)

(***************************************************************************)
(* sa_new_spec: allocate a spec id, then write specs/<domain>/<capability> *)
(* /spec.md with that id, unless the file exists and --force is not given. *)
(* A document is known by the id it declares.                              *)
(***************************************************************************)
\* the projects a run can start from: no artifacts and no registry, the
\* artifacts with a registry that counts them, the artifacts without
\* registry, a registry that read_registry rejects
NewSpecProjects ==
    {[reg |-> Absent, tree |-> FreshTree],
     [reg |-> Full(DocV2(2, 1, 0)), tree |-> DefaultTree],
     [reg |-> Absent, tree |-> DefaultTree],
     [reg |-> Full(DocBadCounter(0, 0)), tree |-> DefaultTree]}

InitNewSpec ==
    /\ now = 0
    /\ \E project \in NewSpecProjects : regFile = project.reg /\ tree = project.tree
    /\ regInit = regFile
    /\ metaDir = (regFile # Absent)
    /\ lockFile = FALSE
    /\ tmpFile = Absent
    /\ pc = [p \in Procs |-> "idle"]
    /\ tool = [p \in Procs |-> "none"]
    /\ args = [p \in Procs |-> NoArgs]
    /\ loc = [p \in Procs |-> InitLoc]
    /\ fdt = [p \in Procs |-> "none"]
    /\ log = <<>>

\* main lines 41-47: superagents/ exists; allocate_next_id is entered
sa_new_spec(p) ==
    /\ pc[p] = "idle"
    /\ MayStart(p)
    /\ tool' = [tool EXCEPT ![p] = "new_spec"]
    /\ metaDir' = TRUE
    /\ pc' = [pc EXCEPT ![p] = "acquire"]
    /\ UNCHANGED <<now, lockFile, regFile, tmpFile, tree, regInit, args, loc, fdt, log>>

\* the record of the end of a sa_new_spec run
SpecMdEntry(p, step, outcome) ==
    [Entry(p, outcome) EXCEPT !.tool = step, !.kind = "spec", !.pad = DefaultPad,
                              !.scan = TRUE, !.alloc = loc[p].alloc]

\* the run ends
SpecMdEnd(p, entry) ==
    /\ log' = Append(log, entry)
    /\ pc' = [pc EXCEPT ![p] = "done"]
    /\ tool' = [tool EXCEPT ![p] = "none"]
    /\ args' = [args EXCEPT ![p] = NoArgs]
    /\ loc' = [loc EXCEPT ![p] = InitLoc]

\* a failure that takes the allocation back: the spec counter is stored
\* again as it was before the allocation
sa_new_spec_exists_rolls_back(p) ==
    /\ pc[p] = "spec_md"
    /\ tree.sa.spec # {}
    /\ regFile' = IF args[p].dry_run \/ regFile.kind # "doc" THEN regFile
                  ELSE Full([regFile.doc EXCEPT
                                 !.counters.spec = JInt(loc[p].alloc.current)])
    /\ SpecMdEnd(p, SpecMdEntry(p, "new_spec", "FileExists"))
    /\ UNCHANGED <<now, metaDir, lockFile, tmpFile, tree, regInit, fdt>>

\* main lines 58-65: spec.md exists for the domain and capability of the
\* run and --force is not given: FileExistsError, after the allocation
sa_new_spec_exists(p) ==
    /\ pc[p] = "spec_md"
    /\ tree.sa.spec # {}
    /\ SpecMdEnd(p, SpecMdEntry(p, "new_spec", "FileExists"))
    /\ UNCHANGED <<now, metaDir, lockFile, regFile, tmpFile, tree, regInit, fdt>>

\* main lines 64-84: no spec.md for the domain and capability; the
\* document that declares the allocated id is written unless --dry-run
sa_new_spec_write(p) ==
    /\ pc[p] = "spec_md"
    /\ tree' = IF args[p].dry_run THEN tree
               ELSE [tree EXCEPT !.sa.spec = @ \cup {loc[p].alloc.id}]
    /\ SpecMdEnd(p, SpecMdEntry(p, "spec_md", "ok"))
    /\ UNCHANGED <<now, metaDir, lockFile, regFile, tmpFile, regInit, fdt>>

\* main lines 64-84 with --force: the document that declares the id old is
\* replaced by the one that declares the allocated id, unless --dry-run
sa_new_spec_overwrite(p, old) ==
    /\ pc[p] = "spec_md"
    /\ old \in tree.sa.spec
    /\ tree' = IF args[p].dry_run THEN tree
               ELSE [tree EXCEPT !.sa.spec = (@ \ {old}) \cup {loc[p].alloc.id}]
    /\ SpecMdEnd(p, SpecMdEntry(p, "spec_md", "ok"))
    /\ UNCHANGED <<now, metaDir, lockFile, regFile, tmpFile, regInit, fdt>>

\* concurrent sa_new_spec runs
NextNewSpec ==
    \/ \E p \in Procs : sa_new_spec(p)
    \/ \E p \in Procs : acquire_lock(p)
    \/ \E p \in Procs : \E elapsed \in Elapsed(p) :
           acquire_lock_sleep(p, NewTimeout, elapsed)
    \/ \E p \in Procs : \E elapsed \in Elapsed(p) :
           acquire_lock_timeout(p, NewTimeout, elapsed)
    \/ \E p \in Procs : load(p, "spec", DefaultPad)
    \/ \E p \in Procs : load_corrupt(p, "spec")
    \/ \E p \in Procs : \E dry_run \in BOOLEAN : \E t \in ClockValues :
           reconcile_allocate(p, dry_run, TRUE, t)
    \/ \E p \in Procs : write_json_atomic_open(p)
    \/ \E p \in Procs : write_json_atomic_write(p)
    \/ \E p \in Procs : write_json_atomic_write_fail(p)
    \/ \E p \in Procs : write_json_atomic_replace(p)
    \/ \E p \in Procs : release_lock(p)
    \/ \E p \in Procs : sa_new_spec_exists(p)
    \/ \E p \in Procs : sa_new_spec_write(p)
    \/ \E p \in Procs : \E old \in tree.sa.spec : sa_new_spec_overwrite(p, old)

SpecNewSpec == InitNewSpec /\ [][NextNewSpec]_vars

\* a non-dry-run sa_new_spec run that failed because spec.md exists
IsSpecExistsFailure(e) ==
    e.tool = "new_spec" /\ e.outcome = "FileExists" /\ ~e.dry_run

\* a sa_new_spec allocation that returned
IsSpecAllocation(e) == e.tool = "new_spec" /\ e.outcome = "ok"

LiveStep(p) ==
    \/ acquire_lock(p)
    \/ \E timeout \in TimeoutArg(p) : \E elapsed \in Elapsed(p) :
           acquire_lock_sleep(p, timeout, elapsed)
    \/ \E timeout \in TimeoutArg(p) : \E elapsed \in Elapsed(p) :
           acquire_lock_timeout(p, timeout, elapsed)
    \/ check_kind_fail(p)
    \/ load(p, "chg", DefaultPad)
    \/ load_corrupt(p, "chg")
    \/ \E dry_run \in BOOLEAN : reconcile_allocate(p, dry_run, FALSE, now)
    \/ write_json_atomic_open(p)
    \/ write_json_atomic_write(p)
    \/ write_json_atomic_write_fail(p)
    \/ write_json_atomic_replace(p)
    \/ release_lock(p)

NextLive == \E p \in Procs : allocate_next_id(p) \/ LiveStep(p)

\* the projects of the default layout
InitLive == Init /\ tree = DefaultTree

\* processes that run the allocator, each call going on until it ends
SpecLive == InitLive /\ [][NextLive]_vars /\ \A p \in Procs : WF_vars(LiveStep(p))

\* C34: every call that was made ends, with an allocation or with an
\* error, and the lock file, once created, is removed again
AllocationTerminates ==
    /\ \A p \in Procs : (pc[p] # "idle") ~> (pc[p] = "done")
    /\ lockFile ~> ~lockFile

\* every call has ended and the lock file is gone: one call returned an
\* allocation, one had waited and raised TimeoutError
AllocationTerminatesWitness ==
    /\ \A p \in Procs : pc[p] = "done"
    /\ ~lockFile
    /\ Len(log) = NumProcs
    /\ \E i \in Indices : log[i].outcome = "ok" /\ log[i].releases = 1
    /\ \E i \in Indices : log[i].outcome = "LockTimeout" /\ log[i].releases = 0

(***************************************************************************)
(* The lock file removed by someone else while a call holds it.            *)
(***************************************************************************)
\* registry.json.lock is deleted from outside (a clean-up of a lock taken
\* for stale) while a call holds its descriptor: the unlink of
\* release_lock line 86 will raise FileNotFoundError
lock_file_removed ==
    /\ lockFile
    /\ \E q \in Procs : loc[q].handle
    /\ lockFile' = FALSE
    /\ UNCHANGED <<now, metaDir, regFile, tmpFile, tree, regInit, pc, tool, args, loc,
                   fdt, log>>

\* the calls, the removal, and the rename that finds the temporary file
\* renamed away by a second holder
NextGone ==
    \/ NextLive
    \/ lock_file_removed
    \/ \E p \in Procs : write_json_atomic_replace_enoent(p)

SpecGone == InitLive /\ [][NextGone]_vars

\* C35: when the lock file is gone at the time of the unlink, release_lock
\* returns: the call ends with the allocation it computed, or with the
\* error that was raised inside the guarded section, and no lock file is
\* left
ReleaseToleratesMissingLockFile ==
    [][ \A p \in Procs :
          (pc[p] = "release" /\ pc'[p] # "release" /\ ~lockFile)
          => /\ pc'[p] = "done"
             /\ ~lockFile'
             /\ Len(log') = Len(log) + 1
             /\ log'[Len(log')].outcome = Outcome(p)
             /\ log'[Len(log')].alloc =
                    (IF loc[p].exc = "" THEN loc[p].alloc ELSE NoAllocation)
             /\ log'[Len(log')].releases = 1 ]_vars

\* the lock file was removed under its holder, a second call took the lock
\* and both stored the same id; both have returned it, the one that
\* released last having found no lock file
ReleaseToleratesMissingLockFileWitness ==
    /\ \A p \in Procs : pc[p] = "done"
    /\ ~lockFile
    /\ \E i \in Indices : \E j \in Indices :
           /\ i < j
           /\ IsIssue(log[i]) /\ IsIssue(log[j])
           /\ log[i].alloc = log[j].alloc
           /\ log[i].releases = 1 /\ log[j].releases = 1

(***************************************************************************)
(* scan_max_ids on a directory listing.  A directory is missing or holds   *)
(* entries, each with a name and the answer of is_dir(); a month of        *)
(* .sa/history is an entry with its own listing; a document is known by    *)
(* the value of the id key of its front matter, empty when it has none.    *)
(***************************************************************************)
\* the number of decimal digits a string starts with
RECURSIVE DigitPrefixLen(_)
DigitPrefixLen(s) ==
    IF s = <<>> \/ DigitValue(s[1]) < 0 THEN 0 ELSE 1 + DigitPrefixLen(Tail(s))

\* a pattern for the name that asks for no underscore after the digits
LEADING_ID_RE_no_underscore(name) == SubSeq(name, 1, DigitPrefixLen(name))

\* LEADING_ID_RE.match(name), ^(?P<id>\d+)_ : the group id, <<>> when the
\* name does not match
LEADING_ID_RE(name) ==
    LET n == DigitPrefixLen(name)
    IN  IF n > 0 /\ Len(name) > n /\ name[n + 1] = "_" THEN SubSeq(name, 1, n)
        ELSE <<>>

\* STABLE_ID_RE.match(doc_id), ^(?P<prefix>CHG|SPEC)-(?P<id>\d+)$ : the
\* groups, with an empty id when doc_id does not match
STABLE_ID_RE(doc_id) ==
    LET cut == IF Len(doc_id) > 4 /\ SubSeq(doc_id, 1, 4) = <<"C", "H", "G", "-">> THEN 4
               ELSE IF Len(doc_id) > 5
                       /\ SubSeq(doc_id, 1, 5) = <<"S", "P", "E", "C", "-">> THEN 5
               ELSE 0
        rest == SubSeq(doc_id, cut + 1, Len(doc_id))
    IN  IF cut > 0 /\ DigitPrefixLen(rest) = Len(rest)
        THEN [prefix |-> SubSeq(doc_id, 1, cut - 1), id |-> rest]
        ELSE [prefix |-> <<>>, id |-> <<>>]

\* lines 198-208 and 212-215, 223-226: the values bump_chg takes from the
\* entries of one directory, files being skipped
bump_chg(entries) ==
    {ParseDecimal(LEADING_ID_RE(e.name)) :
         e \in {x \in entries : x.is_dir /\ LEADING_ID_RE(x.name) # <<>>}}

\* lines 230-243: the values taken from the documents specs/*/*/spec.md
spec_ids(docs) ==
    {ParseDecimal(STABLE_ID_RE(d).id) :
         d \in {x \in docs : STABLE_ID_RE(x).prefix = KIND_PREFIX["spec"]}}

\* lines 210-243: the ids the scan sees under superagents_dir
scanned_artifacts(dir) ==
    [chg |-> (IF dir.tasks.exists THEN bump_chg(dir.tasks.entries) ELSE {})
               \cup (IF dir.history.exists
                     THEN UNION {bump_chg(month.entries) :
                                     month \in {m \in dir.history.entries : m.is_dir}}
                     ELSE {}),
     spec |-> IF dir.specs.exists THEN spec_ids(dir.specs.entries) ELSE {}]

\* names of entries
Name003 == <<"0", "0", "3", "_", "f">>
Name12 == <<"1", "2", "_", "x">>
Name7x == <<"7", "x", "_">>
Namex9 == <<"x", "9", "_">>
Name45 == <<"4", "5">>
NameU8 == <<"_", "8">>

\* values of the id key
IdSpec4 == <<"S", "P", "E", "C", "-", "0", "0", "4">>
IdChg9 == <<"C", "H", "G", "-", "0", "0", "9">>
IdSpec12x == <<"S", "P", "E", "C", "-", "1", "2", "x">>
IdLower7 == <<"s", "p", "e", "c", "-", "7">>

File(name) == [name |-> name, is_dir |-> FALSE]
Dir(name) == [name |-> name, is_dir |-> TRUE]

Missing == [exists |-> FALSE, entries |-> {}]
Listing(entries) == [exists |-> TRUE, entries |-> entries]

\* what tasks/ can hold
TaskEntries == {Dir(Name003), File(Name12), Dir(Name7x), Dir(Name45)}

\* what .sa/history/ can hold: a file, and two month directories
Months ==
    {[name |-> <<"m", "0">>, is_dir |-> FALSE, entries |-> {}],
     [name |-> <<"m", "1">>, is_dir |-> TRUE, entries |-> {Dir(Name12), Dir(Namex9)}],
     [name |-> <<"m", "2">>, is_dir |-> TRUE, entries |-> {File(Name003), Dir(NameU8)}]}

\* the ids the documents under specs/ can declare
DocIds == {IdSpec4, IdChg9, IdSpec12x, IdLower7, <<>>}

InitScan ==
    /\ now = 0
    /\ \E tasks \in {Missing} \cup {Listing(s) : s \in SUBSET TaskEntries} :
       \E history \in {Missing} \cup {Listing(s) : s \in SUBSET Months} :
       \E specs \in {Missing} \cup {Listing(s) : s \in SUBSET DocIds} :
           tree = [tasks |-> tasks, history |-> history, specs |-> specs]
    /\ regFile = Absent
    /\ regInit = regFile
    /\ metaDir = FALSE
    /\ lockFile = FALSE
    /\ tmpFile = Absent
    /\ pc = [p \in Procs |-> "idle"]
    /\ tool = [p \in Procs |-> "none"]
    /\ args = [p \in Procs |-> NoArgs]
    /\ loc = [p \in Procs |-> InitLoc]
    /\ fdt = [p \in Procs |-> "none"]
    /\ log = <<>>

\* one call of scan_max_ids(superagents_dir), lines 194-245: the listing is
\* read and the two maxima are returned
scan_call(p) ==
    /\ pc[p] = "idle"
    /\ pc' = [pc EXCEPT ![p] = "done"]
    /\ log' = Append(log, [tool |-> "scan",
                           result |-> scan_max_ids(scanned_artifacts(tree))])
    /\ UNCHANGED <<now, metaDir, lockFile, regFile, tmpFile, tree, regInit, tool,
                   args, loc, fdt>>

NextScan == \E p \in Single : scan_call(p)

SpecScan == InitScan /\ [][NextScan]_vars

\* the number a well-formed name starts with, 0 for the other names
NumericPrefix(name) ==
    CASE name = Name003 -> 3
      [] name = Name12 -> 12
      [] OTHER -> 0

\* the number a well-formed SPEC id ends with, 0 for the other ids
SpecSuffix(doc_id) == IF doc_id = IdSpec4 THEN 4 ELSE 0

\* the directories directly under tasks/ and directly under the month
\* directories of .sa/history/
TaskDirs(dir) ==
    {e \in dir.tasks.entries : dir.tasks.exists /\ e.is_dir}
      \cup {e \in UNION {m.entries : m \in {x \in dir.history.entries : x.is_dir}} :
                dir.history.exists /\ e.is_dir}

\* C36: the scan returns, for chg, the largest numeric prefix of the
\* directories directly under tasks/ and under the month directories of
\* .sa/history/, for spec the largest numeric suffix of the SPEC ids the
\* documents declare, 0 where there is none; missing directories, files
\* and malformed names or ids count for nothing, and no file or directory
\* is changed by the call
ScanIsMaxOverTree ==
    [][ \A p \in Single :
          (pc[p] = "idle" /\ pc'[p] = "done")
          => /\ log'[Len(log')].result.chg
                    = SetMax({NumericPrefix(e.name) : e \in TaskDirs(tree)})
             /\ log'[Len(log')].result.spec
                    = SetMax({SpecSuffix(d) : d \in {x \in tree.specs.entries :
                                                         tree.specs.exists}})
             /\ tree' = tree
             /\ regFile' = regFile /\ tmpFile' = tmpFile
             /\ lockFile' = lockFile /\ metaDir' = metaDir ]_vars

\* tasks/ held 003_f, a file 12_x and the malformed 7x_, a month directory
\* held 12_x, the documents declared SPEC-004, CHG-009 and SPEC-12x: the
\* scan returned 12 and 4
ScanIsMaxOverTreeWitness ==
    /\ Len(log) = 1
    /\ log[1].result = [chg |-> 12, spec |-> 4]
    /\ tree.tasks = Listing({Dir(Name003), File(Name12), Dir(Name7x)})
    /\ tree.history.exists /\ tree.specs.exists
    /\ {IdSpec4, IdChg9, IdSpec12x} \subseteq tree.specs.entries

====
